---- MODULE Spec2Model ----
(***************************************************************************)
(* State-machine model of the synchronization engine of src/drive_panel.ts *)
(* (HarmonyWebDavClient and smartSync).                                    *)
(*                                                                         *)
(* The program is JavaScript: code between two awaits runs atomically, so  *)
(* every action below is one such run: the arrival of a response (or the   *)
(* firing of a timer, or the resumption of an awaiting caller) followed by *)
(* all the code that runs until the next await.                            *)
(*                                                                         *)
(* Strings whose characters matter (remote paths) are sequences of         *)
(* one-character strings.                                                  *)
(***************************************************************************)
EXTENDS Integers, Sequences, FiniteSets, TLC

\* ------------------------------------------------------------------ bounds
\* A smartSync run of the model has workers + planned tasks + maxRetries <= MaxLoad.
MaxLoad == 5
\* The single-caller specification makes at most MaxCalls client calls, with
\* maxRetries <= MaxCallRetries.
MaxCalls == 2
MaxCallRetries == 2
\* The one-worker specification plans at most MaxSeqTasks tasks, with
\* maxRetries <= MaxSeqRetries.
MaxSeqTasks == 2
MaxSeqRetries == 2
\* The two-run specification plans at most MaxTwiceTasks tasks, with
\* maxRetries <= MaxTwiceRetries.
MaxTwiceTasks == 2
MaxTwiceRetries == 1
\* The rerun specification has workers + planned tasks + maxRetries <= MaxRerunLoad.
MaxRerunLoad == 4
\* The decoded pass of a configuration has 0..MaxCipherLen bytes.
MaxCipherLen == 17
\* The pool specification has workers + planned tasks + maxRetries <= MaxPoolLoad.
MaxPoolLoad == 5
\* The tree of the planning specification has the root and at most MaxEntries
\* entries under it.
MaxEntries == 3
\* The termination specification has workers + planned tasks + maxRetries <=
\* MaxLiveLoad.
MaxLiveLoad == 3

\* ------------------------------------------------------- program constants
RetryDelayMs == 600
\* rcloneReveal: the first 16 bytes of the decoded pass are the counter block
IvLength == 16

None == "none"

\* An optional value (null or undefined in the source) is a sequence of length
\* at most one.
Null == <<>>
Some(v) == <<v>>

\* Thrown errors. An error thrown for a response carries the status in its
\* message; FetchError is a rejected fetch (transport error or timeout);
\* IoError is a rejected Deno file operation.
StatusError(status) == [kind |-> "status", code |-> status]
FetchError == [kind |-> "fetch", code |-> 0]
IoError == [kind |-> "io", code |-> 0]
OpFailedAfterRetries == [kind |-> "Operation failed after retries", code |-> 0]
NoError == [kind |-> "undefined", code |-> 0]

\* ------------------------------------------------------------ pure helpers
RECURSIVE LastIndexOf(_, _, _)
LastIndexOf(str, ch, i) ==
  IF i = 0 THEN 0 ELSE IF str[i] = ch THEN i ELSE LastIndexOf(str, ch, i - 1)

\* task.remote.slice(0, task.remote.lastIndexOf("/")), "" when there is no "/"
RemoteDirOf(remote) ==
  LET k == LastIndexOf(remote, "/", Len(remote))
  IN IF k >= 1 THEN SubSeq(remote, 1, k - 1) ELSE <<>>

\* remotePath.replace(/\/+/g, "/")
CollapseSlashes(str) ==
  LET keep == {i \in 1..Len(str) : ~(str[i] = "/" /\ i > 1 /\ str[i - 1] = "/")}
      F[i \in 0..Len(str)] ==
        IF i = 0 THEN <<>>
        ELSE IF i \in keep THEN Append(F[i - 1], str[i]) ELSE F[i - 1]
  IN F[Len(str)]

\* .replace(/\/$/, "")
StripTrailingSlash(str) ==
  IF Len(str) > 0 /\ str[Len(str)] = "/" THEN SubSeq(str, 1, Len(str) - 1) ELSE str

NormalizeDir(remotePath) == StripTrailingSlash(CollapseSlashes(remotePath))

MkcolMemoStatuses == {201, 301, 405, 409}

isRetryableStatus(status) ==
  status = 408 \/ status = 425 \/ status = 429 \/ status >= 500

IsOk(status) == status >= 200 /\ status <= 299

\* String.prototype.trim, for the one whitespace character used here
RECURSIVE Trim(_)
Trim(str) ==
  IF str = <<>> THEN str
  ELSE IF Head(str) = " " THEN Trim(Tail(str))
  ELSE IF str[Len(str)] = " " THEN Trim(SubSeq(str, 1, Len(str) - 1))
  ELSE str

\* normalizeEtag: quotes removed, trimmed, "" -> null
normalizeEtag(etag) ==
  IF etag = Null \/ etag[1] = <<>> THEN Null
  ELSE LET stripped == Trim(SelectSeq(etag[1], LAMBDA c : c # "\""))
       IN IF stripped = <<>> THEN Null ELSE Some(stripped)

\* String.prototype.toLowerCase on the characters used here
LowerChar(c) == CASE c = "A" -> "a" [] c = "B" -> "b" [] c = "C" -> "c" [] OTHER -> c
toLowerCase(str) == [i \in 1..Len(str) |-> LowerChar(str[i])]

\* ------------------------------------------------------------- input sets
\* The local tree seen by walk(): one entry per regular file, with the remote
\* path normalizeRemotePath gives it, its size and the hex MD5 of its bytes.
FileF  == [local |-> "f",  remote |-> <<"f">>,                size |-> 10, md5 |-> <<"a", "b">>]
FileAF == [local |-> "af", remote |-> <<"d", "/", "f">>,      size |-> 10, md5 |-> <<"a", "b">>]
FileAG == [local |-> "ag", remote |-> <<"d", "/", "g">>,      size |-> 20, md5 |-> <<"c", "d">>]
FileBF == [local |-> "bf", remote |-> <<"/", "e", "/", "f">>, size |-> 20, md5 |-> <<"a", "b">>]
FileCF == [local |-> "cf", remote |-> <<"/", "f">>,           size |-> 10, md5 |-> <<"c", "d">>]

\* the order in which walk() yields them
Walk == <<FileAF, FileAG, FileBF, FileF, FileCF>>

Prefix(seq, n) == SubSeq(seq, 1, IF n < Len(seq) THEN n ELSE Len(seq))

Plans == { Prefix(Walk, n) : n \in 0..MaxLoad }


\* every normalized directory an mkdir call of the model can name
\* remote paths typed into the panel's "Upload file from URL"
PanelPaths == { <<"f">>, <<"d", "/">>, <<"d", "/", "/">>, <<"d", "/", "f">>,
                <<"d", "/", "/", "f">>, <<"/", "e", "/", "f">> }

\* every directory path an mkdir call of the model can be given, and their
\* normalized forms
RawDirs ==
  { RemoteDirOf(f.remote) : f \in {FileF, FileAF, FileAG, FileBF, FileCF} }
  \cup { IF Len(q) > 0 /\ q[Len(q)] = "/" THEN SubSeq(q, 1, Len(q) - 1)
         ELSE RemoteDirOf(q) : q \in PanelPaths }
DirUniverse == { NormalizeDir(d) : d \in RawDirs } \ {<<>>}

\* What the remote may answer. A HEAD answer is its status with the parsed
\* Content-Length header and the ETag header; the other answers are a status.
\* "Any" is the remote of the single-caller specifications; "Sync" is the
\* smaller sample used where several workers interleave.
HeadAnswer(status, len, etag) == [status |-> status, len |-> len, etag |-> etag]

MkcolStatuses == {200, 201, 301, 405, 409, 403, 503}

AnyHeadAnswers ==
  { HeadAnswer(status, Null, Null) : status \in {401, 403, 404, 408, 425, 429, 500, 503} }
  \cup { HeadAnswer(status, len, etag) :
           status \in {200, 204}, len \in {Null, Some(10), Some(20)},
           etag \in { Null, Some(<<"\"", "A", "B", "\"">>), Some(<<"c", "d">>),
                      Some(<<"\"", "\"">>), Some(<<>>) } }
AnyPutStatuses == {200, 201, 204, 301, 401, 403, 404, 408, 425, 429, 500, 503}

AnyGetStatuses == {200, 204, 401, 403, 404, 408, 425, 429, 500, 503}

SyncHeadAnswers ==
  { HeadAnswer(status, Null, Null) : status \in {404, 503} }
  \cup { HeadAnswer(200, Some(10), etag) :
           etag \in {Null, Some(<<"\"", "A", "B", "\"">>)} }
SyncPutStatuses == {201, 403, 503}
SyncMkcolStatuses == {201, 503}

\* A remote that keeps the files it is sent. The ETag it gives a stored file is
\* the quoted hex MD5 of the content, a weak validator, or no header at all.
EtagKinds == {"md5", "weak", "absent"}
Quoted(str) == <<"\"">> \o str \o <<"\"">>
RemoteEtag(kind, md5) ==
  CASE kind = "md5" -> Some(Quoted(md5))
    [] kind = "weak" -> Some(<<"W", "/">> \o Quoted(md5))
    [] OTHER -> Null
\* the statuses with which such a remote refuses a PUT
PutRefusals == {403, 503}

\* ------------------------------------------------------------------ state
VARIABLES
  \* parameters of the run, fixed at construction
  files,        \* smartSync: the planned task list
  compareMode,  \* smartSync: "size" or "size+etag"
  concurrency,  \* smartSync: the concurrency argument
  maxRetries,   \* client.maxRetries
  etagKind,     \* the remote: what ETag it gives a stored file (used by the
                \* specification that keeps the remote's files, SpecTwice)
  \* HarmonyWebDavClient
  createdDirs, pendingDirs,
  \* network: MKCOL requests for d awaiting their response (mkcolSent[d]) and
  \* those whose then/catch callback has run but whose finally has not
  mkcolSent, mkcolThen,
  mkcolStatus,  \* response.status inside the callbacks of the request for d
                \* (0: no response, the fetch rejected)
  stored,       \* the remote: the file stored at the remote path of task t
  \* the panel: which smartSync run this is, and the report of the first
  run, firstReport,
  \* smartSync locals; queue holds indices into files
  queue, processed, uploaded, skipped, failed, report,
  \* per caller (a smartSync worker, or the panel's menu loop)
  pc, task, op, attempt, lastError, result, meta, awaitDir,
  headStatus,   \* response.status of p's latest HEAD attempt (0: none)
  answer,       \* p's latest PUT or GET attempt: the response status and the
                \* head of the message of the error thrown for it
  localFile,    \* download: the file at localPath
  \* loadRcloneConfig: its inputs, its position, what it returned
  cfg, cfgPc, cfgOut,
  planning,     \* smartSync's planning loop: the tree walk() sees, the two
                \* roots, the entries consumed, the tasks pushed, its position
  \* history
  mkcolIssued,      \* MKCOL requests ever issued for d
  mkcolUnmemoized,  \* MKCOL requests for d that ended without memoizing it
  delivered,        \* how many times task t came out of queue.shift()
  term,             \* how many times task t incremented each counter
  tries,            \* operation(attempt) calls of p's current withRetry
  waits,            \* the backoff delays of p's current withRetry
  allRetryable,     \* every attempt of p's current withRetry so far ended
                    \* with a retryable status
  attemptErr,       \* the error thrown by p's latest attempt
  calls             \* client calls made by the panel

params == <<files, compareMode, concurrency, maxRetries, etagKind>>

vars == <<files, compareMode, concurrency, maxRetries, etagKind,
          createdDirs, pendingDirs, mkcolSent, mkcolThen, mkcolStatus,
          stored, run, firstReport,
          queue, processed, uploaded, skipped, failed, report,
          pc, task, op, attempt, lastError, result, meta, awaitDir, headStatus,
          answer, localFile, cfg, cfgPc, cfgOut, planning,
          mkcolIssued, mkcolUnmemoized, delivered, term, tries, waits,
          allRetryable, attemptErr, calls>>

\* The changing state as one record, so that a handler is the composition of
\* the functions it calls.
Cur ==
  [ createdDirs |-> createdDirs, pendingDirs |-> pendingDirs,
    mkcolSent |-> mkcolSent, mkcolThen |-> mkcolThen,
    mkcolStatus |-> mkcolStatus, stored |-> stored, run |-> run,
    firstReport |-> firstReport, headStatus |-> headStatus,
    answer |-> answer, localFile |-> localFile,
    cfg |-> cfg, cfgPc |-> cfgPc, cfgOut |-> cfgOut, planning |-> planning,
    queue |-> queue, processed |-> processed, uploaded |-> uploaded,
    skipped |-> skipped, failed |-> failed, report |-> report,
    pc |-> pc, task |-> task, op |-> op, attempt |-> attempt,
    lastError |-> lastError, result |-> result, meta |-> meta,
    awaitDir |-> awaitDir,
    mkcolIssued |-> mkcolIssued, mkcolUnmemoized |-> mkcolUnmemoized,
    delivered |-> delivered, term |-> term, tries |-> tries, waits |-> waits,
    allRetryable |-> allRetryable, attemptErr |-> attemptErr, calls |-> calls ]

Start(s) ==
  /\ createdDirs = s.createdDirs /\ pendingDirs = s.pendingDirs
  /\ mkcolSent = s.mkcolSent /\ mkcolThen = s.mkcolThen
  /\ mkcolStatus = s.mkcolStatus /\ stored = s.stored /\ run = s.run
  /\ firstReport = s.firstReport /\ headStatus = s.headStatus
  /\ answer = s.answer /\ localFile = s.localFile
  /\ cfg = s.cfg /\ cfgPc = s.cfgPc /\ cfgOut = s.cfgOut
  /\ planning = s.planning
  /\ queue = s.queue /\ processed = s.processed /\ uploaded = s.uploaded
  /\ skipped = s.skipped /\ failed = s.failed /\ report = s.report
  /\ pc = s.pc /\ task = s.task /\ op = s.op /\ attempt = s.attempt
  /\ lastError = s.lastError /\ result = s.result /\ meta = s.meta
  /\ awaitDir = s.awaitDir
  /\ mkcolIssued = s.mkcolIssued /\ mkcolUnmemoized = s.mkcolUnmemoized
  /\ delivered = s.delivered /\ term = s.term /\ tries = s.tries
  /\ waits = s.waits /\ allRetryable = s.allRetryable
  /\ attemptErr = s.attemptErr /\ calls = s.calls

Become(s) ==
  \E n \in {s} :
    /\ createdDirs' = n.createdDirs /\ pendingDirs' = n.pendingDirs
    /\ mkcolSent' = n.mkcolSent /\ mkcolThen' = n.mkcolThen
    /\ mkcolStatus' = n.mkcolStatus /\ stored' = n.stored /\ run' = n.run
    /\ firstReport' = n.firstReport /\ headStatus' = n.headStatus
    /\ answer' = n.answer /\ localFile' = n.localFile
    /\ cfg' = n.cfg /\ cfgPc' = n.cfgPc /\ cfgOut' = n.cfgOut
    /\ planning' = n.planning
    /\ queue' = n.queue /\ processed' = n.processed /\ uploaded' = n.uploaded
    /\ skipped' = n.skipped /\ failed' = n.failed /\ report' = n.report
    /\ pc' = n.pc /\ task' = n.task /\ op' = n.op /\ attempt' = n.attempt
    /\ lastError' = n.lastError /\ result' = n.result /\ meta' = n.meta
    /\ awaitDir' = n.awaitDir
    /\ mkcolIssued' = n.mkcolIssued /\ mkcolUnmemoized' = n.mkcolUnmemoized
    /\ delivered' = n.delivered /\ term' = n.term /\ tries' = n.tries
    /\ waits' = n.waits /\ allRetryable' = n.allRetryable
    /\ attemptErr' = n.attemptErr /\ calls' = n.calls
    /\ UNCHANGED params

\* as many workers as asked for
nWorkersAsAsked == concurrency

nWorkers == IF concurrency > 1 THEN concurrency ELSE 1   \* Math.max(1, concurrency)
Workers == 1..nWorkers

NoResult == [ok |-> TRUE, value |-> Null, error |-> NoError]
Returned(v) == [ok |-> TRUE, value |-> v, error |-> NoError]
Raised(e) == [ok |-> FALSE, value |-> Null, error |-> e]

ZeroTerm == [skipped |-> 0, uploaded |-> 0, failed |-> 0, processed |-> 0]

\* no response yet
NoAnswer == [status |-> 0, body |-> FALSE, thrown |-> ""]
\* A value that may be a string: kind "undefined", kind "string" (what the
\* configuration holds: b64 says whether it is valid base64, len how many bytes
\* it decodes to) or kind "plain" (a text decoded from len decrypted bytes).
UndefinedPass == [kind |-> "undefined", b64 |-> FALSE, len |-> 0]
EmptyString == [kind |-> "string", b64 |-> TRUE, len |-> 0]
Plain(n) == [kind |-> "plain", b64 |-> FALSE, len |-> n]
Passes ==
  {UndefinedPass}
    \cup {[kind |-> "string", b64 |-> FALSE, len |-> 0]}
    \cup {[kind |-> "string", b64 |-> TRUE, len |-> n] : n \in 0..MaxCipherLen}

\* no call of loadRcloneConfig
NoConfig == [readable |-> FALSE, parses |-> FALSE, entry |-> "undefined",
             url |-> "undefined", user |-> "undefined", type |-> "undefined",
             pass |-> UndefinedPass, key |-> "ok",
             revealed |-> Null, caught |-> ""]

\* no planning loop is running
NoPlanning == [sep |-> "/", localFolder |-> <<>>, remoteFolder |-> <<>>,
               entries |-> <<>>, walked |-> 0, tasks |-> <<>>, pc |-> "idle"]

InitState(plan, startPc) ==
  [ createdDirs |-> {}, pendingDirs |-> {},
    mkcolSent |-> [d \in DirUniverse |-> 0],
    mkcolThen |-> [d \in DirUniverse |-> 0],
    mkcolStatus |-> [d \in DirUniverse |-> 0],
    stored |-> [i \in 1..Len(plan) |-> Null],
    run |-> 1, firstReport |-> Null,
    headStatus |-> [p \in Workers |-> 0],
    answer |-> [p \in Workers |-> NoAnswer],
    localFile |-> "old",
    cfg |-> NoConfig, cfgPc |-> "idle", cfgOut |-> Null,
    planning |-> NoPlanning,
    queue |-> [i \in 1..Len(plan) |-> i],
    processed |-> 0, uploaded |-> 0, skipped |-> 0, failed |-> 0,
    report |-> Null,
    pc |-> [p \in Workers |-> startPc],
    task |-> [p \in Workers |-> 0],
    op |-> [p \in Workers |-> None],
    attempt |-> [p \in Workers |-> 0],
    lastError |-> [p \in Workers |-> NoError],
    result |-> [p \in Workers |-> NoResult],
    meta |-> [p \in Workers |-> Null],
    awaitDir |-> [p \in Workers |-> <<>>],
    mkcolIssued |-> [d \in DirUniverse |-> 0],
    mkcolUnmemoized |-> [d \in DirUniverse |-> 0],
    delivered |-> [i \in 1..Len(plan) |-> 0],
    term |-> [i \in 1..Len(plan) |-> ZeroTerm],
    tries |-> [p \in Workers |-> 0],
    waits |-> [p \in Workers |-> <<>>],
    allRetryable |-> [p \in Workers |-> TRUE],
    attemptErr |-> [p \in Workers |-> NoError],
    calls |-> 0 ]

\* ------------------------------------------------- HarmonyWebDavClient.mkdir
\* the request is issued and stored, and mkdir returns without awaiting it
MkdirIssueNoAwait(s, p, n) ==
  [s EXCEPT !.mkcolSent[n] = @ + 1, !.mkcolIssued[n] = @ + 1,
            !.pendingDirs = @ \cup {n}, !.pc[p] = "mkdir_ret"]

\* fetch(MKCOL) is issued and the promise is stored in pendingDirs; the caller
\* awaits it.
MkdirIssue(s, p, n) ==
  [s EXCEPT !.mkcolSent[n] = @ + 1, !.mkcolIssued[n] = @ + 1,
            !.pendingDirs = @ \cup {n},
            !.pc[p] = "mkdir_wait", !.awaitDir[p] = n]

\* mkdir returns at once: its promise is resolved, the caller resumes later
MkdirNoop(s, p) == [s EXCEPT !.pc[p] = "mkdir_ret"]

\* the pending promise is found but not awaited
MkdirIgnorePending(s, p, n) == MkdirNoop(s, p)

\* await this.pendingDirs.get(normalizedPath)
MkdirAwaitPending(s, p, n) ==
  [s EXCEPT !.pc[p] = "mkdir_wait", !.awaitDir[p] = n]

\* mkdir without the pendingDirs lookup
MkdirNoPendingCheck(s, p, remotePath) ==
  LET n == NormalizeDir(remotePath)
  IN IF n = <<>> \/ n \in s.createdDirs THEN MkdirNoop(s, p)
     ELSE MkdirIssue(s, p, n)

\* mkdir without the createdDirs lookup
MkdirNoMemoCheck(s, p, remotePath) ==
  LET n == NormalizeDir(remotePath)
  IN IF n = <<>> THEN MkdirNoop(s, p)
     ELSE IF n \in s.pendingDirs THEN MkdirAwaitPending(s, p, n)
     ELSE MkdirIssue(s, p, n)

Mkdir(s, p, remotePath) ==
  LET n == NormalizeDir(remotePath)
  IN IF n = <<>> \/ n \in s.createdDirs THEN MkdirNoop(s, p)
     ELSE IF n \in s.pendingDirs THEN MkdirAwaitPending(s, p, n)
     ELSE MkdirIssue(s, p, n)

\* every success status memoizes the path as well
MkcolThenMemoOnSuccess(s, d, status) ==
  LET memo == IsOk(status) \/ status \in MkcolMemoStatuses
  IN [s EXCEPT !.createdDirs = IF memo THEN @ \cup {d} ELSE @,
               !.mkcolUnmemoized[d] = IF memo THEN @ ELSE @ + 1,
               !.mkcolSent[d] = @ - 1, !.mkcolThen[d] = @ + 1,
               !.mkcolStatus[d] = status]

\* every response memoizes the path
MkcolThenMemoAlways(s, d, status) ==
  [s EXCEPT !.createdDirs = @ \cup {d},
            !.mkcolSent[d] = @ - 1, !.mkcolThen[d] = @ + 1,
            !.mkcolStatus[d] = status]

\* .then((response) => ...): the response arrived with this status
MkcolThenCallback(s, d, status) ==
  LET memo == status \in MkcolMemoStatuses
  IN [s EXCEPT !.createdDirs = IF memo THEN @ \cup {d} ELSE @,
               !.mkcolUnmemoized[d] = IF memo THEN @ ELSE @ + 1,
               !.mkcolSent[d] = @ - 1, !.mkcolThen[d] = @ + 1,
               !.mkcolStatus[d] = status]

\* the catch sends the request again
MkcolCatchRetries(s, d) ==
  [s EXCEPT !.mkcolUnmemoized[d] = @ + 1, !.mkcolIssued[d] = @ + 1]

\* fetch rejected: then is skipped, .catch(() => undefined) swallows the error
MkcolCatchCallback(s, d) ==
  [s EXCEPT !.mkcolUnmemoized[d] = @ + 1,
            !.mkcolSent[d] = @ - 1, !.mkcolThen[d] = @ + 1]

\* the finally also forgets that the directory exists
MkcolFinallyForgets(s, d) ==
  [s EXCEPT !.pendingDirs = @ \ {d}, !.createdDirs = @ \ {d},
            !.mkcolThen[d] = @ - 1, !.mkcolStatus[d] = 0,
            !.pc = [p \in DOMAIN s.pc |->
                      IF s.pc[p] = "mkdir_wait" /\ s.awaitDir[p] = d
                      THEN "mkdir_ret" ELSE s.pc[p]],
            !.awaitDir = [p \in DOMAIN s.pc |->
                      IF s.pc[p] = "mkdir_wait" /\ s.awaitDir[p] = d
                      THEN <<>> ELSE s.awaitDir[p]]]

\* the entry is deleted only when a response arrived
MkcolFinallyKeepsOnError(s, d) ==
  [s EXCEPT !.pendingDirs = IF s.mkcolStatus[d] = 0 THEN @ ELSE @ \ {d},
            !.mkcolThen[d] = @ - 1, !.mkcolStatus[d] = 0,
            !.pc = [p \in DOMAIN s.pc |->
                      IF s.pc[p] = "mkdir_wait" /\ s.awaitDir[p] = d
                      THEN "mkdir_ret" ELSE s.pc[p]],
            !.awaitDir = [p \in DOMAIN s.pc |->
                      IF s.pc[p] = "mkdir_wait" /\ s.awaitDir[p] = d
                      THEN <<>> ELSE s.awaitDir[p]]]

\* .finally(() => this.pendingDirs.delete(normalizedPath)); the request promise
\* resolves and every caller awaiting it becomes ready to resume
MkcolFinallyCallback(s, d) ==
  [s EXCEPT !.pendingDirs = @ \ {d},
            !.mkcolThen[d] = @ - 1, !.mkcolStatus[d] = 0,
            !.pc = [p \in DOMAIN s.pc |->
                      IF s.pc[p] = "mkdir_wait" /\ s.awaitDir[p] = d
                      THEN "mkdir_ret" ELSE s.pc[p]],
            !.awaitDir = [p \in DOMAIN s.pc |->
                      IF s.pc[p] = "mkdir_wait" /\ s.awaitDir[p] = d
                      THEN <<>> ELSE s.awaitDir[p]]]

\* --------------------------------------------- HarmonyWebDavClient.withRetry
\* the async function has settled; its caller resumes in a later step
Settle(s, p, r) == [s EXCEPT !.pc[p] = "settled", !.result[p] = r]

\* operation(attempt) runs up to its first await
StartAttempt(s, p) ==
  LET first == CASE s.op[p] = "head"     -> "head_wait"   \* fetch HEAD
                 [] s.op[p] = "upload"   -> "open_wait"   \* Deno.open(localPath)
                 [] s.op[p] = "download" -> "get_wait"    \* fetch GET
                 [] s.op[p] = "link"     -> "src_wait"    \* fetch(fileUrl)
  IN [s EXCEPT !.pc[p] = first, !.tries[p] = @ + 1]

\* throw lastError instanceof Error ? lastError : new Error("Operation failed after retries")
ThrowAfterRetries(err) == IF err = NoError THEN OpFailedAfterRetries ELSE err

\* for (...; attempt <= this.maxRetries; ...): the loop test, then the body
WithRetryLoop(s, p) ==
  IF s.attempt[p] <= maxRetries THEN StartAttempt(s, p)
  ELSE Settle(s, p, Raised(ThrowAfterRetries(s.lastError[p])))

\* withRetry(operation): let lastError; attempt = 0
CallWithRetry(s, p, o) ==
  WithRetryLoop([s EXCEPT !.op[p] = o, !.attempt[p] = 0, !.lastError[p] = NoError,
                          !.tries[p] = 0, !.waits[p] = <<>>,
                          !.allRetryable[p] = TRUE, !.attemptErr[p] = NoError,
                          !.headStatus[p] = 0, !.answer[p] = NoAnswer], p)

\* return await operation(attempt)
AttemptReturned(s, p, v) ==
  Settle([s EXCEPT !.allRetryable[p] = FALSE], p, Returned(v))

\* the delay grows from zero
BackoffFromZero(att) == RetryDelayMs * att

\* const backoff = this.retryDelayMs * (attempt + 1)
Backoff(att) == RetryDelayMs * (att + 1)

\* only the first error is kept
RecordFirstError(prev, err) == IF prev = NoError THEN err ELSE prev

\* lastError = error
RecordError(prev, err) == err

\* the loop gives up one attempt early
IsLastAttemptEarly(att) == att + 1 >= maxRetries

\* if (attempt === this.maxRetries) break
IsLastAttempt(att) == att = maxRetries

IsRetryableError(err) == err.kind = "status" /\ isRetryableStatus(err.code)

\* the error of the first failing attempt is thrown to the caller
AttemptThrewNoRetry(s, p, err) ==
  Settle([s EXCEPT !.lastError[p] = err, !.attemptErr[p] = err,
                   !.allRetryable[p] = @ /\ IsRetryableError(err)], p, Raised(err))

\* catch (error) { ... }: operation(attempt) threw err
AttemptThrew(s, p, err) ==
  LET s1 == [s EXCEPT !.lastError[p] = RecordError(@, err),
                      !.attemptErr[p] = err,
                      !.allRetryable[p] = @ /\ IsRetryableError(err)]
  IN IF IsLastAttempt(s.attempt[p])
     THEN Settle(s1, p, Raised(ThrowAfterRetries(s1.lastError[p])))
     ELSE [s1 EXCEPT !.pc[p] = "backoff",
                     !.waits[p] = Append(@, Backoff(s.attempt[p]))]

\* the backoff timer fired: attempt++, loop test, next operation(attempt)
AfterBackoff(s, p) == WithRetryLoop([s EXCEPT !.attempt[p] = @ + 1], p)

\* ------------------------------------------------------- getRemoteMetadata
\* every non-success status throws, as in upload
HeadOutcomeThrowsAll(s0, p, status, len, etag) ==
  LET s == [s0 EXCEPT !.headStatus[p] = status]
  IN IF ~IsOk(status) THEN AttemptThrew(s, p, StatusError(status))
     ELSE AttemptReturned(s, p, Some([size |-> len, etag |-> normalizeEtag(etag)]))

\* only 404 means absent: every other non-success status throws
HeadOutcomeOnly404Absent(s0, p, status, len, etag) ==
  LET s == [s0 EXCEPT !.headStatus[p] = status]
  IN IF status = 404 THEN AttemptReturned(s, p, Null)
     ELSE IF ~IsOk(status) THEN AttemptThrew(s, p, StatusError(status))
     ELSE AttemptReturned(s, p, Some([size |-> len, etag |-> normalizeEtag(etag)]))

\* the body of the operation once the HEAD response is there
HeadOutcome(s0, p, status, len, etag) ==
  LET s == [s0 EXCEPT !.headStatus[p] = status]
  IN IF status = 404 THEN AttemptReturned(s, p, Null)
     ELSE IF ~IsOk(status)
          THEN IF isRetryableStatus(status) THEN AttemptThrew(s, p, StatusError(status))
               ELSE AttemptReturned(s, p, Null)
     ELSE AttemptReturned(s, p, Some([size |-> len, etag |-> normalizeEtag(etag)]))

\* ------------------------------------------------------------------ upload
\* uploaded is counted when upload is called
CallUploadCountsFirst(s, p) ==
  [s EXCEPT !.pc[p] = "stat_wait", !.op[p] = "upload",
            !.tries[p] = 0, !.waits[p] = <<>>,
            !.attemptErr[p] = NoError, !.lastError[p] = NoError,
            !.uploaded = @ + 1, !.term[s.task[p]].uploaded = @ + 1]

\* upload(): await Deno.stat(localPath)
CallUpload(s, p) == [s EXCEPT !.pc[p] = "stat_wait", !.op[p] = "upload",
                              !.tries[p] = 0, !.waits[p] = <<>>,
                              !.attemptErr[p] = NoError, !.lastError[p] = NoError]

\* only the statuses from 400 on fail
PutFailedFrom400(status) == status >= 400

\* if (!response.ok && response.status !== 201 && response.status !== 204) throw
PutFailed(status) == ~IsOk(status) /\ status # 201 /\ status # 204

\* the head of the message of the error thrown for a failed PUT
PutMessage(o, status) ==
  IF o = "upload"
  THEN IF isRetryableStatus(status) THEN "Upload retryable" ELSE "Upload failed"
  ELSE IF isRetryableStatus(status) THEN "Upload link retryable"
       ELSE "Upload from URL failed"

PutOutcome(s0, p, status, value) ==
  LET failed0 == PutFailed(status)
      s == [s0 EXCEPT !.answer[p] =
              [status |-> status, body |-> FALSE,
               thrown |-> IF failed0 THEN PutMessage(s0.op[p], status) ELSE ""]]
  IN IF failed0 THEN AttemptThrew(s, p, StatusError(status))
     ELSE AttemptReturned(s, p, value)

\* ---------------------------------------------------------------- download
\* if (!response.ok || !response.body) throw; else Deno.open(localPath, ...)
\* the local file is opened whatever the response is
GetOutcomeOpenFirst(s0, p, status, hasBody) ==
  [s0 EXCEPT !.pc[p] = "dlopen_wait",
             !.answer[p] = [status |-> status, body |-> hasBody, thrown |-> ""]]

\* the local file is created or truncated before the response is looked at
GetOutcomeTruncatesFirst(s0, p, status, hasBody) ==
  LET failed0 == ~IsOk(status) \/ ~hasBody
      s == [s0 EXCEPT !.localFile = "truncated",
                      !.answer[p] =
              [status |-> status, body |-> hasBody,
               thrown |-> IF ~failed0 THEN ""
                          ELSE IF isRetryableStatus(status) THEN "Download retryable"
                          ELSE "Download failed"]]
  IN IF failed0 THEN AttemptThrew(s, p, StatusError(status))
     ELSE [s EXCEPT !.pc[p] = "dlopen_wait"]

GetOutcome(s0, p, status, hasBody) ==
  LET failed0 == ~IsOk(status) \/ ~hasBody
      s == [s0 EXCEPT !.answer[p] =
              [status |-> status, body |-> hasBody,
               thrown |-> IF ~failed0 THEN ""
                          ELSE IF isRetryableStatus(status) THEN "Download retryable"
                          ELSE "Download failed"]]
  IN IF failed0 THEN AttemptThrew(s, p, StatusError(status))
     ELSE [s EXCEPT !.pc[p] = "dlopen_wait"]

\* ---------------------------------------------------------- uploadFromLink
\* if (!sourceResponse.ok || !sourceResponse.body) throw; else fetch PUT
SourceOutcome(s, p, status, hasBody) ==
  IF ~IsOk(status) \/ ~hasBody THEN AttemptThrew(s, p, StatusError(status))
  ELSE [s EXCEPT !.pc[p] = "linkput_wait"]

\* the caller has taken the result: the locals of the finished call are gone
EndCall(s, p) ==
  [s EXCEPT !.result[p] = NoResult, !.attempt[p] = 0, !.lastError[p] = NoError,
            !.tries[p] = 0, !.waits[p] = <<>>, !.allRetryable[p] = TRUE,
            !.attemptErr[p] = NoError, !.headStatus[p] = 0,
            !.answer[p] = NoAnswer]

\* --------------------------------------------------------- smartSync.worker
\* the first element is read but not removed
ShiftNothing(q) == q

\* queue.shift(): the array after the call
Shift(q) == Tail(q)

\* the worker takes the last task of the queue (queue.pop())
NextTaskFromEnd(s, p) ==
  IF s.queue = <<>> THEN [s EXCEPT !.pc[p] = "returned", !.task[p] = 0]
  ELSE LET t == s.queue[Len(s.queue)]
           s1 == [s EXCEPT !.queue = SubSeq(@, 1, Len(@) - 1), !.task[p] = t,
                           !.delivered[t] = @ + 1]
           remoteDir == RemoteDirOf(files[t].remote)
       IN IF remoteDir # <<>> THEN Mkdir(s1, p, remoteDir)
          ELSE CallWithRetry(s1, p, "head")

\* the worker returns once a task has been processed, whatever is queued
NextTaskOnce(s, p) ==
  IF s.queue = <<>> \/ s.processed > 0
  THEN [s EXCEPT !.pc[p] = "returned", !.task[p] = 0]
  ELSE LET t == Head(s.queue)
           s1 == [s EXCEPT !.queue = Shift(@), !.task[p] = t,
                           !.delivered[t] = @ + 1]
           remoteDir == RemoteDirOf(files[t].remote)
       IN IF remoteDir # <<>> THEN Mkdir(s1, p, remoteDir)
          ELSE CallWithRetry(s1, p, "head")

\* the head of the loop: const task = queue.shift(); if (!task) return;
\* then the try block up to its first await
NextTask(s, p) ==
  IF s.queue = <<>> THEN [s EXCEPT !.pc[p] = "returned", !.task[p] = 0]
  ELSE LET t == Head(s.queue)
           s1 == [s EXCEPT !.queue = Shift(@), !.task[p] = t,
                           !.delivered[t] = @ + 1]
           remoteDir == RemoteDirOf(files[t].remote)
       IN IF remoteDir # <<>> THEN Mkdir(s1, p, remoteDir)
          ELSE CallWithRetry(s1, p, "head")

\* finally { processed++ }, then the next iteration of while (true)
Finally(s, p) ==
  NextTask([s EXCEPT !.processed = @ + 1,
                     !.term[s.task[p]].processed = @ + 1], p)

\* skipped++
TaskSkipped(s, p) ==
  Finally([s EXCEPT !.skipped = @ + 1, !.term[s.task[p]].skipped = @ + 1], p)

\* uploaded++ (after await client.upload returned)
TaskUploaded(s, p) ==
  Finally([s EXCEPT !.uploaded = @ + 1, !.term[s.task[p]].uploaded = @ + 1], p)

\* processed++ sits at the end of the try block, not in a finally
TaskFailedUncounted(s, p) ==
  NextTask([s EXCEPT !.failed = @ + 1, !.term[s.task[p]].failed = @ + 1], p)

\* no catch block: the finally runs and the worker's promise rejects
TaskRethrown(s, p) ==
  [s EXCEPT !.processed = @ + 1, !.term[s.task[p]].processed = @ + 1,
            !.pc[p] = "rejected"]

\* catch (error) { failed++ }
TaskFailed(s, p) ==
  Finally([s EXCEPT !.failed = @ + 1, !.term[s.task[p]].failed = @ + 1], p)

\* the size is only tested for presence
SizePresent(m, t) == m # Null /\ m[1].size # Null

\* the comparison lets an absent metadata pass
SameSizeUndefinedPasses(m, t) ==
  m = Null \/ (m[1].size # Null /\ m[1].size[1] = files[t].size)

\* remoteMetadata?.size !== null && remoteMetadata?.size === task.size
SameSize(m, t) == m # Null /\ m[1].size # Null /\ m[1].size[1] = files[t].size

\* an entity tag is compared under either policy
CanCompareAnyMode(m) == m # Null /\ m[1].etag # Null

\* compareMode === "size+etag" && !!remoteMetadata?.etag
CanCompareChecksum(m) == compareMode = "size+etag" /\ m # Null /\ m[1].etag # Null

\* the digest and the entity tag are compared as they are
SameChecksumExact(m, t) == files[t].md5 = m[1].etag[1]

\* (await md5FromPath(task.local)).toLowerCase() === etagAvailable.toLowerCase()
SameChecksum(m, t) == toLowerCase(files[t].md5) = toLowerCase(m[1].etag[1])

\* nothing is ever found synchronized
IsSyncedNever(sameSize, canCompareChecksum, sameChecksum) == FALSE

IsSynced(sameSize, canCompareChecksum, sameChecksum) ==
  IF compareMode = "size" THEN sameSize
  ELSE IF canCompareChecksum THEN sameSize /\ sameChecksum
  ELSE FALSE

\* the else is missing: a skipped task is uploaded as well
ConcludeFallThrough(s, p, isSynced) ==
  IF isSynced
  THEN CallUpload([s EXCEPT !.skipped = @ + 1, !.term[s.task[p]].skipped = @ + 1], p)
  ELSE CallUpload(s, p)

\* if (isSynced) { skipped++ } else { await client.upload(...) }
Conclude(s, p, isSynced) ==
  IF isSynced THEN TaskSkipped(s, p) ELSE CallUpload(s, p)

\* the decision looks at the size only, whatever the policy
AfterProbeSizeOnly(s, p, m) == Conclude(s, p, SameSize(m, s.task[p]))

\* the code after await client.getRemoteMetadata returned m, up to the next await
AfterProbe(s, p, m) ==
  IF CanCompareChecksum(m)
  THEN [s EXCEPT !.pc[p] = "md5_wait", !.op[p] = "md5", !.meta[p] = m]  \* Deno.readFile
  ELSE Conclude(s, p, IsSynced(SameSize(m, s.task[p]), FALSE, FALSE))

\* the code after md5FromPath returned
AfterChecksum(s, p) ==
  LET m == s.meta[p]
      t == s.task[p]
  IN Conclude([s EXCEPT !.meta[p] = Null], p,
              IsSynced(SameSize(m, t), TRUE, SameChecksum(m, t)))

\* a probe that raised is taken for "no metadata"
AfterAwaitProbeErrorIsAbsent(s, p) ==
  LET r == s.result[p]
      s1 == EndCall(s, p)
  IN IF s.op[p] = "head" THEN AfterProbe(s1, p, IF r.ok THEN r.value ELSE Null)
     ELSE IF ~r.ok THEN TaskFailed(s1, p)
     ELSE TaskUploaded(s1, p)

\* the worker resumes from await client.getRemoteMetadata, await md5FromPath
\* (rejected) or await client.upload
AfterAwait(s, p) ==
  LET r == s.result[p]
      s1 == EndCall(s, p)
  IN IF ~r.ok THEN TaskFailed(s1, p)
     ELSE IF s.op[p] = "head" THEN AfterProbe(s1, p, r.value)
     ELSE TaskUploaded(s1, p)

\* return { processed, uploaded, skipped, failed, elapsedMs }
Report(s) == [raised |-> FALSE, processed |-> s.processed, uploaded |-> s.uploaded,
              skipped |-> s.skipped, failed |-> s.failed]

\* await Promise.all(workers) rejects as soon as one worker rejects
Rejection == [raised |-> TRUE, processed |-> 0, uploaded |-> 0, skipped |-> 0,
              failed |-> 0]

\* ----------------------------------------------------------------- actions
\* Promise.all(Array.from({length: Math.max(1, concurrency)}, worker)): the
\* workers are called one after the other, each running up to its first await,
\* before anything else runs.
Launched == \A p \in Workers : pc[p] # "init"

StartWorker(p) ==
  /\ p \in Workers /\ pc[p] = "init"
  /\ \A q \in Workers : q < p => pc[q] # "init"
  /\ Become(NextTask(Cur, p))

MkcolResponse(d, statuses) ==
  /\ Launched /\ mkcolSent[d] > 0
  /\ \E status \in statuses : Become(MkcolThenCallback(Cur, d, status))

MkcolRejected(d) ==
  /\ Launched /\ mkcolSent[d] > 0
  /\ Become(MkcolCatchCallback(Cur, d))

MkcolFinally(d) ==
  /\ Launched /\ mkcolThen[d] > 0
  /\ Become(MkcolFinallyCallback(Cur, d))

\* await client.mkdir(remoteDir) resumes; client.getRemoteMetadata(task.remote)
WorkerMkdirReturned(p) ==
  /\ Launched /\ pc[p] = "mkdir_ret"
  /\ Become(CallWithRetry(Cur, p, "head"))

HeadResponse(p, answers) ==
  /\ Launched /\ pc[p] = "head_wait"
  /\ \E a \in answers : Become(HeadOutcome(Cur, p, a.status, a.len, a.etag))

HeadRejected(p) ==
  /\ Launched /\ pc[p] = "head_wait"
  /\ Become(AttemptThrew([Cur EXCEPT !.headStatus[p] = 0], p, FetchError))

BackoffFired(p) ==
  /\ Launched /\ pc[p] = "backoff"
  /\ Become(AfterBackoff(Cur, p))

WorkerResumed(p) ==
  /\ Launched /\ pc[p] = "settled"
  /\ Become(AfterAwait(Cur, p))

\* md5FromPath: Deno.readFile and crypto.subtle.digest returned
ChecksumComputed(p) ==
  /\ Launched /\ pc[p] = "md5_wait"
  /\ Become(AfterChecksum(Cur, p))

\* md5FromPath: Deno.readFile rejected, so md5FromPath rejects
ChecksumFailed(p) ==
  /\ Launched /\ pc[p] = "md5_wait"
  /\ Become(Settle([Cur EXCEPT !.meta[p] = Null], p, Raised(IoError)))

\* upload: Deno.stat returned; withRetry starts
StatReturned(p) ==
  /\ Launched /\ pc[p] = "stat_wait"
  /\ Become(CallWithRetry(Cur, p, "upload"))

\* upload: Deno.stat rejected, so upload rejects before withRetry is reached
StatFailed(p) ==
  /\ Launched /\ pc[p] = "stat_wait"
  /\ Become(Settle(Cur, p, Raised(IoError)))

\* upload: Deno.open returned; fetch PUT
OpenReturned(p) ==
  /\ Launched /\ pc[p] = "open_wait"
  /\ Become([Cur EXCEPT !.pc[p] = "put_wait"])

OpenFailed(p) ==
  /\ Launched /\ pc[p] = "open_wait"
  /\ Become(AttemptThrew(Cur, p, IoError))

PutResponse(p, statuses) ==
  /\ Launched /\ pc[p] = "put_wait"
  /\ \E status \in statuses : Become(PutOutcome(Cur, p, status, Null))

\* the PUT fetch rejected (transport error, or AbortSignal.timeout fired)
PutRejected(p) ==
  /\ Launched /\ pc[p] = "put_wait"
  /\ Become(AttemptThrew([Cur EXCEPT !.answer[p] = NoAnswer], p, FetchError))

\* await Promise.all(...) settles
SyncReturn ==
  /\ Launched /\ report = Null
  /\ \/ \E p \in Workers : pc[p] = "rejected"
     \/ \A p \in Workers : pc[p] = "returned"
  /\ Become([Cur EXCEPT !.report =
               IF \E p \in Workers : pc[p] = "rejected"
               THEN Some(Rejection) ELSE Some(Report(Cur))])

Init ==
  /\ files \in Plans
  /\ compareMode \in {"size", "size+etag"}
  /\ concurrency \in 0..MaxLoad
  /\ maxRetries \in 0..MaxLoad
  /\ nWorkers + Len(files) + maxRetries <= MaxLoad
  /\ etagKind = "absent"
  /\ Start(InitState(files, "init"))

Next ==
  \/ \E p \in Workers : StartWorker(p)
  \/ \E d \in DirUniverse : MkcolResponse(d, SyncMkcolStatuses)
  \/ \E d \in DirUniverse : MkcolRejected(d)
  \/ \E d \in DirUniverse : MkcolFinally(d)
  \/ \E p \in Workers : WorkerMkdirReturned(p)
  \/ \E p \in Workers : HeadResponse(p, SyncHeadAnswers)
  \/ \E p \in Workers : HeadRejected(p)
  \/ \E p \in Workers : BackoffFired(p)
  \/ \E p \in Workers : WorkerResumed(p)
  \/ \E p \in Workers : ChecksumComputed(p)
  \/ \E p \in Workers : ChecksumFailed(p)
  \/ \E p \in Workers : StatReturned(p)
  \/ \E p \in Workers : StatFailed(p)
  \/ \E p \in Workers : OpenReturned(p)
  \/ \E p \in Workers : OpenFailed(p)
  \/ \E p \in Workers : PutResponse(p, SyncPutStatuses)
  \/ \E p \in Workers : PutRejected(p)
  \/ SyncReturn

Spec == Init /\ [][Next]_vars

\* What the runtime guarantees to happen. Callbacks, resumptions, timers and
\* local file operations run; the PUT of upload is given
\* AbortSignal.timeout(uploadTimeoutMs), so it is answered or rejected. The
\* fetches of mkdir (MKCOL) and getRemoteMetadata (HEAD) carry no signal:
\* nothing makes them settle when the remote does not answer.
WorkerStep(p) ==
  /\ p \in Workers
  /\ \/ StartWorker(p)
     \/ WorkerMkdirReturned(p)
     \/ BackoffFired(p)
     \/ WorkerResumed(p)
     \/ ChecksumComputed(p) \/ ChecksumFailed(p)
     \/ StatReturned(p) \/ StatFailed(p)
     \/ OpenReturned(p) \/ OpenFailed(p)
     \/ PutResponse(p, SyncPutStatuses) \/ PutRejected(p)

\* Every run of these steps is finite, so it is enough to require that one of
\* them is taken whenever one can be.
Progress ==
  \/ \E p \in Workers : WorkerStep(p)
  \/ \E d \in DirUniverse : MkcolFinally(d)
  \/ SyncReturn

Fairness == WF_vars(Progress)

SpecFair == Init /\ [][Next]_vars /\ Fairness

\* A remote and a file system that always answer: every fetch and every local
\* file operation settles, and every callback, timer and resumption runs. Each
\* step of Next is one of these, and no step can be taken twice for the same
\* await, so it is enough to require that a step is taken whenever one can be.
\* The policy is the default one: it compares sizes alone when the remote
\* gives no entity tag and computes the local checksum when it gives one.
InitLive ==
  /\ files \in Plans
  /\ compareMode = "size+etag"
  /\ concurrency \in 0..MaxLiveLoad
  /\ maxRetries \in 0..MaxLiveLoad
  /\ nWorkers + Len(files) + maxRetries <= MaxLiveLoad
  /\ etagKind = "absent"
  /\ Start(InitState(files, "init"))

EverythingReturns == WF_vars(Next)

SpecLive == InitLive /\ [][Next]_vars /\ EverythingReturns

\* --------------------------------------------- one caller using the client
\* The menu loop of DrivePowerPanel.start makes one client call at a time:
\* upload, download, or mkdir followed by uploadFromLink. ProbeCalled is a
\* direct call of the public method getRemoteMetadata.
CanCall == pc[1] = "menu" /\ calls < MaxCalls

Called(s) == [s EXCEPT !.calls = @ + 1]

\* selected === "1": await this.client.upload(localPath, remotePath)
UploadCalled ==
  /\ CanCall
  /\ Become(CallUpload(Called(Cur), 1))

\* selected === "2": await this.client.download(remotePath, localPath)
DownloadCalled ==
  /\ CanCall
  /\ Become(CallWithRetry(Called(Cur), 1, "download"))

\* remoteDir of the panel's "Upload file from URL"
LinkRemoteDir(remotePath) ==
  IF Len(remotePath) > 0 /\ remotePath[Len(remotePath)] = "/"
  THEN SubSeq(remotePath, 1, Len(remotePath) - 1)
  ELSE RemoteDirOf(remotePath)

\* selected === "4": if (remoteDir) await this.client.mkdir(remoteDir);
\* await this.client.uploadFromLink(fileUrl, remotePath)
LinkCalled ==
  /\ CanCall
  /\ \E remotePath \in PanelPaths :
       LET remoteDir == LinkRemoteDir(remotePath)
       IN IF remoteDir # <<>> THEN Become(Mkdir(Called(Cur), 1, remoteDir))
          ELSE Become(CallWithRetry(Called(Cur), 1, "link"))

PanelMkdirReturned ==
  /\ pc[1] = "mkdir_ret"
  /\ Become(CallWithRetry(Cur, 1, "link"))

ProbeCalled ==
  /\ CanCall
  /\ Become(CallWithRetry(Called(Cur), 1, "head"))

\* the awaited call settled: back to the menu, or start() rejects
PanelResumed ==
  /\ pc[1] = "settled"
  /\ Become([EndCall(Cur, 1) EXCEPT
               !.pc[1] = IF result[1].ok THEN "menu" ELSE "crashed"])

GetResponse(p, statuses) ==
  /\ pc[p] = "get_wait"
  /\ \E status \in statuses, hasBody \in BOOLEAN :
       Become(GetOutcome(Cur, p, status, hasBody))

GetRejected(p) ==
  /\ pc[p] = "get_wait"
  /\ Become(AttemptThrew([Cur EXCEPT !.answer[p] = NoAnswer], p, FetchError))

\* download: Deno.open(localPath, {write, create, truncate}) returned; pipeTo
LocalOpened(p) ==
  /\ pc[p] = "dlopen_wait"
  /\ Become([Cur EXCEPT !.pc[p] = "pipe_wait", !.localFile = "truncated"])

LocalOpenFailed(p) ==
  /\ pc[p] = "dlopen_wait"
  /\ Become(AttemptThrew(Cur, p, IoError))

\* download: response.body.pipeTo(file.writable) finished; file.close()
PipeFinished(p) ==
  /\ pc[p] = "pipe_wait"
  /\ Become(AttemptReturned([Cur EXCEPT !.localFile = "written"], p, Null))

PipeFailed(p) ==
  /\ pc[p] = "pipe_wait"
  /\ Become(AttemptThrew(Cur, p, FetchError))

SourceResponse(p, statuses) ==
  /\ pc[p] = "src_wait"
  /\ \E status \in statuses, hasBody \in BOOLEAN :
       Become(SourceOutcome(Cur, p, status, hasBody))

SourceRejected(p) ==
  /\ pc[p] = "src_wait"
  /\ Become(AttemptThrew(Cur, p, FetchError))

LinkPutResponse(p, statuses) ==
  /\ pc[p] = "linkput_wait"
  /\ \E status \in statuses : Become(PutOutcome(Cur, p, status, Null))

LinkPutRejected(p) ==
  /\ pc[p] = "linkput_wait"
  /\ Become(AttemptThrew([Cur EXCEPT !.answer[p] = NoAnswer], p, FetchError))

InitCalls ==
  /\ files = <<>>
  /\ compareMode = "size"
  /\ concurrency = 1
  /\ maxRetries \in 0..MaxCallRetries
  /\ etagKind = "absent"
  /\ Start(InitState(files, "menu"))

NextCalls ==
  \/ UploadCalled
  \/ DownloadCalled
  \/ LinkCalled
  \/ ProbeCalled
  \/ PanelMkdirReturned
  \/ PanelResumed
  \/ \E d \in DirUniverse : MkcolResponse(d, MkcolStatuses)
  \/ \E d \in DirUniverse : MkcolRejected(d)
  \/ \E d \in DirUniverse : MkcolFinally(d)
  \/ HeadResponse(1, AnyHeadAnswers)
  \/ HeadRejected(1)
  \/ BackoffFired(1)
  \/ StatReturned(1)
  \/ StatFailed(1)
  \/ OpenReturned(1)
  \/ OpenFailed(1)
  \/ PutResponse(1, AnyPutStatuses)
  \/ PutRejected(1)
  \/ GetResponse(1, AnyGetStatuses)
  \/ GetRejected(1)
  \/ LocalOpened(1)
  \/ LocalOpenFailed(1)
  \/ PipeFinished(1)
  \/ PipeFailed(1)
  \/ SourceResponse(1, AnyGetStatuses)
  \/ SourceRejected(1)
  \/ LinkPutResponse(1, AnyPutStatuses)
  \/ LinkPutRejected(1)

SpecCalls == InitCalls /\ [][NextCalls]_vars

\* ------------------------------------------- smartSync with a single worker
\* One worker handles the tasks one after the other, so the remote can be
\* given every answer of the "Any" sets.
InitSeq ==
  /\ files \in Plans /\ Len(files) <= MaxSeqTasks
  /\ compareMode \in {"size", "size+etag"}
  /\ concurrency \in 0..1
  /\ maxRetries \in 0..MaxSeqRetries
  /\ etagKind = "absent"
  /\ Start(InitState(files, "init"))

NextSeq ==
  \/ StartWorker(1)
  \/ \E d \in DirUniverse : MkcolResponse(d, MkcolStatuses)
  \/ \E d \in DirUniverse : MkcolRejected(d)
  \/ \E d \in DirUniverse : MkcolFinally(d)
  \/ WorkerMkdirReturned(1)
  \/ HeadResponse(1, AnyHeadAnswers)
  \/ HeadRejected(1)
  \/ BackoffFired(1)
  \/ WorkerResumed(1)
  \/ ChecksumComputed(1)
  \/ ChecksumFailed(1)
  \/ StatReturned(1)
  \/ StatFailed(1)
  \/ OpenReturned(1)
  \/ OpenFailed(1)
  \/ PutResponse(1, AnyPutStatuses)
  \/ PutRejected(1)
  \/ SyncReturn

SpecSeq == InitSeq /\ [][NextSeq]_vars

\* ---------------------------------------- two smartSync runs, one remote
\* The panel's "Smart Sync" is chosen twice with the same folders. The remote
\* keeps the files it accepted: a PUT answered 201 stores the file, a HEAD is
\* answered from what is stored.
PutStored(p) ==
  /\ Launched /\ pc[p] = "put_wait"
  /\ LET f == files[task[p]]
         kept == Some([len |-> f.size, etag |-> RemoteEtag(etagKind, f.md5)])
     IN Become(PutOutcome([Cur EXCEPT !.stored[task[p]] = kept], p, 201, Null))

HeadStored(p) ==
  /\ Launched /\ pc[p] = "head_wait"
  /\ LET kept == stored[task[p]]
     IN IF kept = Null THEN Become(HeadOutcome(Cur, p, 404, Null, Null))
        ELSE Become(HeadOutcome(Cur, p, 200, Some(kept[1].len), kept[1].etag))

\* the second smartSync is given a new client
SecondRunFreshClient ==
  /\ run = 1 /\ report # Null /\ ~report[1].raised
  /\ Become([InitState(files, "init") EXCEPT
               !.run = 2, !.firstReport = report, !.stored = stored,
               !.mkcolIssued = mkcolIssued, !.mkcolUnmemoized = mkcolUnmemoized])

\* the first smartSync returned its report; smartSync is called again with the
\* same client
SecondRun ==
  /\ run = 1 /\ report # Null /\ ~report[1].raised
  /\ Become([InitState(files, "init") EXCEPT
               !.run = 2, !.firstReport = report,
               !.createdDirs = createdDirs, !.stored = stored,
               !.mkcolIssued = mkcolIssued, !.mkcolUnmemoized = mkcolUnmemoized])

InitTwice ==
  /\ files \in Plans /\ Len(files) >= 1 /\ Len(files) <= MaxTwiceTasks
  /\ compareMode \in {"size", "size+etag"}
  /\ concurrency = 1
  /\ maxRetries \in 0..MaxTwiceRetries
  /\ etagKind \in EtagKinds
  /\ Start(InitState(files, "init"))

NextTwice ==
  \/ StartWorker(1)
  \/ \E d \in DirUniverse : MkcolResponse(d, MkcolStatuses)
  \/ \E d \in DirUniverse : MkcolRejected(d)
  \/ \E d \in DirUniverse : MkcolFinally(d)
  \/ WorkerMkdirReturned(1)
  \/ HeadStored(1)
  \/ HeadRejected(1)
  \/ BackoffFired(1)
  \/ WorkerResumed(1)
  \/ ChecksumComputed(1)
  \/ ChecksumFailed(1)
  \/ StatReturned(1)
  \/ StatFailed(1)
  \/ OpenReturned(1)
  \/ OpenFailed(1)
  \/ PutStored(1)
  \/ PutResponse(1, PutRefusals)
  \/ PutRejected(1)
  \/ SyncReturn
  \/ SecondRun

SpecTwice == InitTwice /\ [][NextTwice]_vars

\* The same two runs with several workers, against a remote whose ETag is the
\* MD5 of the content.
InitRerun ==
  /\ files \in Plans /\ Len(files) >= 1
  /\ compareMode \in {"size", "size+etag"}
  /\ concurrency \in 1..MaxRerunLoad
  /\ maxRetries \in 0..MaxRerunLoad
  /\ nWorkers + Len(files) + maxRetries <= MaxRerunLoad
  /\ etagKind = "md5"
  /\ Start(InitState(files, "init"))

NextRerun ==
  \/ \E p \in Workers : StartWorker(p)
  \/ \E d \in DirUniverse : MkcolResponse(d, SyncMkcolStatuses)
  \/ \E d \in DirUniverse : MkcolRejected(d)
  \/ \E d \in DirUniverse : MkcolFinally(d)
  \/ \E p \in Workers : WorkerMkdirReturned(p)
  \/ \E p \in Workers : HeadStored(p)
  \/ \E p \in Workers : HeadRejected(p)
  \/ \E p \in Workers : BackoffFired(p)
  \/ \E p \in Workers : WorkerResumed(p)
  \/ \E p \in Workers : ChecksumComputed(p)
  \/ \E p \in Workers : ChecksumFailed(p)
  \/ \E p \in Workers : StatReturned(p)
  \/ \E p \in Workers : StatFailed(p)
  \/ \E p \in Workers : OpenReturned(p)
  \/ \E p \in Workers : OpenFailed(p)
  \/ \E p \in Workers : PutStored(p)
  \/ \E p \in Workers : PutResponse(p, PutRefusals)
  \/ \E p \in Workers : PutRejected(p)
  \/ SyncReturn
  \/ SecondRun

SpecRerun == InitRerun /\ [][NextRerun]_vars

\* smartSync with any number of workers asked for, zero and a negative number
\* included, and a client that retries at most once
InitPool ==
  /\ files \in Plans
  /\ compareMode \in {"size", "size+etag"}
  /\ concurrency \in -1..MaxPoolLoad
  /\ maxRetries \in 0..1
  /\ nWorkers + Len(files) + maxRetries <= MaxPoolLoad
  /\ etagKind = "absent"
  /\ Start(InitState(files, "init"))

SpecPool == InitPool /\ [][Next]_vars

\* ---------------------------------------------------- smartSync: planning
\* Paths are sequences of characters; sep is the separator of the platform,
\* "/" or "\\". The paths of the model hold no "." and no ".." segment.
RECURSIVE JoinWith(_, _)
JoinWith(parts, sep) ==
  IF parts = <<>> THEN <<>>
  ELSE IF Len(parts) = 1 THEN parts[1]
  ELSE parts[1] \o <<sep>> \o JoinWith(Tail(parts), sep)

\* runs of the separator become one separator
CollapseSep(str, sep) ==
  LET F[i \in 0..Len(str)] ==
        IF i = 0 THEN <<>>
        ELSE IF str[i] = sep /\ i > 1 /\ str[i - 1] = sep THEN F[i - 1]
        ELSE Append(F[i - 1], str[i])
  IN F[Len(str)]

\* @std/path join: the non-empty segments joined with the separator and
\* normalized (on Windows "/" is a separator too and becomes "\\"); "." when
\* nothing is left
join(segments, sep) ==
  LET joined == JoinWith(SelectSeq(segments, LAMBDA x : x # <<>>), sep)
      native == [i \in 1..Len(joined) |->
                   IF sep = "\\" /\ joined[i] = "/" THEN "\\" ELSE joined[i]]
      collapsed == CollapseSep(native, sep)
  IN IF collapsed = <<>> THEN <<".">> ELSE collapsed

\* the path is left as join gives it
normalizeRemotePathAsJoined(segments, sep) == join(segments, sep)

\* normalizeRemotePath: join(...segments).replace(/\\/g, "/")
normalizeRemotePath(segments, sep) ==
  LET joined == join(segments, sep)
  IN [i \in 1..Len(joined) |-> IF joined[i] = "\\" THEN "/" ELSE joined[i]]

\* the path walk() gives the entry with these names under root
EntryPath(root, rel, sep) == join(<<root>> \o rel, sep)

\* @std/path relative(from, to) for a path to under the directory from
relative(from, to, sep) ==
  LET f0 == join(<<from>>, sep)
      f == IF Len(f0) > 1 /\ f0[Len(f0)] = sep THEN SubSeq(f0, 1, Len(f0) - 1) ELSE f0
  IN IF Len(to) <= Len(f) THEN <<>> ELSE SubSeq(to, Len(f) + 2, Len(to))

\* What walk() can yield: the root directory first, then entries under it. A
\* file name with a backslash exists only where "/" is the separator.
RootEntry == [kind |-> "dir", rel |-> <<>>, size |-> 0]
DirD == [kind |-> "dir", rel |-> << <<"d">> >>, size |-> 0]
FileUnderRoot == [kind |-> "file", rel |-> << <<"f">> >>, size |-> 10]
FileUnderD == [kind |-> "file", rel |-> << <<"d">>, <<"g">> >>, size |-> 20]
LinkS == [kind |-> "symlink", rel |-> << <<"s">> >>, size |-> 0]
FileBackslash == [kind |-> "file", rel |-> << <<"a", "\\", "b">> >>, size |-> 10]
EntrySamples == {DirD, FileUnderRoot, FileUnderD, LinkS, FileBackslash}

Trees(sep) ==
  {<<RootEntry>> \o t : t \in
    {t \in UNION {[1..n -> EntrySamples] : n \in 0..MaxEntries} :
       /\ \A i, j \in 1..Len(t) : i # j => t[i] # t[j]
       /\ \A j \in 1..Len(t) : t[j] = FileUnderD => \E i \in 1..(j - 1) : t[i] = DirD
       /\ \A j \in 1..Len(t) : t[j] = FileBackslash => sep = "/"}}

LocalFolders == { <<"l">>, <<"l", "/">> }
RemoteFolders == { <<>>, <<"r">>, <<"r", "/">>, <<"/">> }

\* files.push({ local: entry.path, remote: normalizeRemotePath(remoteFolder,
\* relative(localFolder, entry.path)), size: stat.size })
PlannedTask(pl, e, size) ==
  LET path == EntryPath(pl.localFolder, e.rel, pl.sep)
  IN [local |-> path,
      remote |-> normalizeRemotePath(
                   <<pl.remoteFolder, relative(pl.localFolder, path, pl.sep)>>, pl.sep),
      size |-> size]

\* for await (const entry of walk(localFolder)): the next entry arrives;
\* if (!entry.isFile) continue; else await Deno.stat(entry.path)
WalkYielded ==
  /\ planning.pc = "walk" /\ planning.walked < Len(planning.entries)
  /\ LET e == planning.entries[planning.walked + 1]
     IN Become([Cur EXCEPT !.planning =
                  IF e.kind # "file" THEN [@ EXCEPT !.walked = @ + 1]
                  ELSE [@ EXCEPT !.pc = "planstat_wait"]])

\* walk() is exhausted: const queue = [...files]
WalkEnded ==
  /\ planning.pc = "walk" /\ planning.walked = Len(planning.entries)
  /\ Become([Cur EXCEPT !.planning.pc = "planned"])

\* walk() rejects (a directory cannot be read): smartSync rejects
WalkFailed ==
  /\ planning.pc = "walk" /\ planning.walked < Len(planning.entries)
  /\ Become([Cur EXCEPT !.planning.pc = "plan_raised"])

PlanStatReturned ==
  /\ planning.pc = "planstat_wait"
  /\ LET e == planning.entries[planning.walked + 1]
     IN Become([Cur EXCEPT !.planning =
                  [@ EXCEPT !.tasks = Append(@, PlannedTask(planning, e, e.size)),
                            !.walked = @ + 1, !.pc = "walk"]])

\* Deno.stat rejects: smartSync rejects
PlanStatFailed ==
  /\ planning.pc = "planstat_wait"
  /\ Become([Cur EXCEPT !.planning.pc = "plan_raised"])

InitPlan ==
  /\ files = <<>>
  /\ compareMode = "size"
  /\ concurrency = 1
  /\ maxRetries = 0
  /\ etagKind = "absent"
  /\ \E sep \in {"/", "\\"}, l \in LocalFolders, r \in RemoteFolders :
       \E t \in Trees(sep) :
         Start([InitState(files, "menu") EXCEPT !.planning =
                  [sep |-> sep, localFolder |-> l, remoteFolder |-> r,
                   entries |-> t, walked |-> 0, tasks |-> <<>>, pc |-> "walk"]])

NextPlan ==
  \/ WalkYielded
  \/ WalkEnded
  \/ WalkFailed
  \/ PlanStatReturned
  \/ PlanStatFailed

SpecPlan == InitPlan /\ [][NextPlan]_vars

\* ------------------------------------------------------ loadRcloneConfig
\* The configuration file and the environment of one start of the program:
\* whether the file can be read, whether its text parses, what
\* data[remoteName] is in the parsed document ("undefined": no such key,
\* "section": a section of that name, "scalar": a key of that name outside
\* every section, whose value is a non-empty string), the fields of the
\* section, and the key RCLONE_KEY_HEX gives ("ok", "empty": the empty string,
\* "badlength": not a length AES accepts).
Configs ==
  {[NoConfig EXCEPT !.readable = FALSE, !.key = k] : k \in {"ok", "empty", "badlength"}}
   \cup {[NoConfig EXCEPT !.readable = TRUE, !.key = k] : k \in {"ok", "empty", "badlength"}}
   \cup {[NoConfig EXCEPT !.readable = TRUE, !.parses = TRUE, !.entry = e, !.key = k] :
           e \in {"undefined", "scalar"}, k \in {"ok", "empty", "badlength"}}
   \cup {[NoConfig EXCEPT !.readable = TRUE, !.parses = TRUE, !.entry = "section",
                          !.url = u, !.user = "user", !.type = "webdav",
                          !.pass = o, !.key = k] :
           u \in {"undefined", "url"}, o \in Passes, k \in {"ok", "empty", "badlength"}}

\* loadRcloneConfig returns out (null or a RemoteConfig)
LoadReturns(s, out) == [s EXCEPT !.cfgPc = "load_settled", !.cfgOut = out]

\* rcloneReveal returns value
RevealReturns(s, value) ==
  [s EXCEPT !.cfgPc = "reveal_settled", !.cfg.revealed = Some(value)]

\* the catch returns the empty string
RevealCaughtGivesEmpty(s, step) ==
  RevealReturns([s EXCEPT !.cfg.caught = step], EmptyString)

\* catch { return obscured }, entered from the step that threw
RevealCaught(s, step) == RevealReturns([s EXCEPT !.cfg.caught = step], s.cfg.pass)

\* rcloneReveal(obscured) up to its first await
rcloneReveal(s, obscured) ==
  IF obscured.kind = "undefined" \/ obscured = EmptyString
  THEN RevealReturns(s, EmptyString)
  ELSE IF ~obscured.b64 THEN RevealCaught(s, "base64")
  ELSE IF obscured.len < IvLength THEN RevealReturns(s, obscured)
  ELSE IF s.cfg.key = "empty" THEN RevealCaught(s, "key")
  ELSE [s EXCEPT !.cfgPc = "import_wait"]

\* the property of data[remoteName] named pass
PassOf(c) == IF c.entry = "section" THEN c.pass ELSE UndefinedPass

\* loadRcloneConfig once the text of the file is there
ParseAndLookup(s) ==
  IF ~s.cfg.parses THEN LoadReturns(s, Null)
  ELSE IF s.cfg.entry = "undefined" THEN LoadReturns(s, Null)
  ELSE rcloneReveal(s, PassOf(s.cfg))

\* the RemoteConfig loadRcloneConfig builds
RemoteConfigOf(c) ==
  [url |-> c.url, user |-> c.user, pass |-> c.revealed[1], type |-> c.type]

ConfigReadReturned ==
  /\ cfgPc = "read_wait" /\ cfg.readable
  /\ Become(ParseAndLookup(Cur))

ConfigReadFailed ==
  /\ cfgPc = "read_wait" /\ ~cfg.readable
  /\ Become(LoadReturns(Cur, Null))

ImportKeyReturned ==
  /\ cfgPc = "import_wait" /\ cfg.key = "ok"
  /\ Become([Cur EXCEPT !.cfgPc = "decrypt_wait"])

ImportKeyRejected ==
  /\ cfgPc = "import_wait" /\ cfg.key = "badlength"
  /\ Become(RevealCaught(Cur, "import"))

\* new TextDecoder().decode(decryptedBuffer): the text of the bytes after the
\* counter block
DecryptReturned ==
  /\ cfgPc = "decrypt_wait"
  /\ Become(RevealReturns(Cur, Plain(cfg.pass.len - IvLength)))

DecryptRejected ==
  /\ cfgPc = "decrypt_wait"
  /\ Become(RevealCaught(Cur, "decrypt"))

RevealResumed ==
  /\ cfgPc = "reveal_settled"
  /\ Become(LoadReturns(Cur, Some(RemoteConfigOf(cfg))))

\* main: exit(1) without a configuration; else new HarmonyWebDavClient(config),
\* whose constructor calls config.url.replace
MainResumed ==
  /\ cfgPc = "load_settled"
  /\ Become([Cur EXCEPT !.cfgPc =
               IF cfgOut = Null THEN "exit"
               ELSE IF cfgOut[1].url = "undefined" THEN "crashed"
               ELSE "panel"])

InitConfig ==
  /\ files = <<>>
  /\ compareMode = "size"
  /\ concurrency = 1
  /\ maxRetries = 0
  /\ etagKind = "absent"
  /\ \E c \in Configs :
       Start([InitState(files, "menu") EXCEPT !.cfg = c, !.cfgPc = "read_wait"])

NextConfig ==
  \/ ConfigReadReturned
  \/ ConfigReadFailed
  \/ ImportKeyReturned
  \/ ImportKeyRejected
  \/ DecryptReturned
  \/ DecryptRejected
  \/ RevealResumed
  \/ MainResumed

SpecConfig == InitConfig /\ [][NextConfig]_vars

\* ------------------------------------------------------------ the claims
RECURSIVE SumOver(_, _)
SumOver(f, S) ==
  IF S = {} THEN 0
  ELSE LET x == CHOOSE y \in S : TRUE IN f[x] + SumOver(f, S \ {x})

\* the normalized parent directory of planned task t ("" when it has none)
DirOfTask(t) == NormalizeDir(RemoteDirOf(files[t].remote))
TasksIn(d) == {t \in 1..Len(files) : DirOfTask(t) = d}
\* K: the distinct non-empty remote parent directories of the plan
ParentDirs == {DirOfTask(t) : t \in 1..Len(files)} \ {<<>>}
InFlight(d) == mkcolSent[d] + mkcolThen[d]
AllReturned == \A p \in Workers : pc[p] = "returned"
SyncReturned == report # Null /\ ~report[1].raised

\* C1 (as stated): over the life of a client at most one MKCOL request is ever
\* issued for a normalized directory path, whatever the request ends with.
C1_AtMostOneMkcolEver == \A d \in DirUniverse : mkcolIssued[d] <= 1

\* C1 (amended): for a normalized directory path, every MKCOL request after the
\* first follows one that ended without memoizing the path (a status other than
\* 201, 301, 405, 409, or a transport error): the requests issued are at most
\* one more than the requests that ended that way, so at most one is issued
\* when the first ends with one of the four statuses.
C1_OneMkcolPerUnmemoizedEnd ==
  \A d \in DirUniverse :
    /\ mkcolIssued[d] <= mkcolUnmemoized[d] + 1
    /\ (d \in createdDirs /\ InFlight(d) = 0) => mkcolIssued[d] = mkcolUnmemoized[d] + 1

\* two tasks of one directory were handled by two workers and one MKCOL was sent
C1_Witness ==
  \E d \in DirUniverse :
    /\ mkcolIssued[d] = 1 /\ d \in createdDirs
    /\ \E t1, t2 \in TasksIn(d) : t1 # t2 /\ delivered[t1] = 1 /\ delivered[t2] = 1
    /\ nWorkers >= 2

\* C2: while a MKCOL request for a path is outstanding, another mkdir call for
\* the path issues no request and awaits the outstanding one, returning only
\* when it completes; no two MKCOL requests for one path are in flight.
C2_CollapseOntoOutstanding ==
  /\ [](\A d \in DirUniverse : InFlight(d) <= 1)
  /\ [][\A d \in DirUniverse :
          /\ mkcolIssued'[d] # mkcolIssued[d] => InFlight(d) = 0
          /\ \A p \in Workers :
               \* p is handed a task of directory d while a request is outstanding
               (InFlight(d) = 1 /\ task'[p] # task[p] /\ task'[p] # 0
                  /\ DirOfTask(task'[p]) = d /\ d \notin createdDirs)
               => (pc'[p] = "mkdir_wait" /\ awaitDir'[p] = d
                   /\ mkcolIssued'[d] = mkcolIssued[d])
          /\ \A p \in Workers :
               \* an awaiting caller resumes only when the request completes
               (pc[p] = "mkdir_wait" /\ awaitDir[p] = d /\ pc'[p] # "mkdir_wait")
               => (InFlight(d) = 1 /\ mkcolThen'[d] = 0 /\ mkcolSent'[d] = 0
                   /\ d \notin pendingDirs')]_vars

\* a second worker awaits the request the first one issued
C2_Witness ==
  \E d \in DirUniverse : \E p, q \in Workers :
    /\ p # q /\ pc[p] = "mkdir_wait" /\ pc[q] = "mkdir_wait"
    /\ awaitDir[p] = d /\ awaitDir[q] = d /\ mkcolIssued[d] = 1 /\ InFlight(d) = 1

C4_EachTaskDequeuedOnce ==
  /\ \A t \in 1..Len(files) : delivered[t] <= 1
  /\ \A p, q \in Workers : (p # q /\ task[p] # 0) => task[p] # task[q]
  /\ \A t \in 1..Len(files) :
       delivered[t] = IF \E i \in 1..Len(queue) : queue[i] = t THEN 0 ELSE 1
  /\ AllReturned => \A t \in 1..Len(files) : delivered[t] = 1

C4_Witness ==
  /\ AllReturned /\ nWorkers = 2 /\ Len(files) = 3
  /\ \A t \in 1..Len(files) : delivered[t] = 1

\* the tasks that have left the try/catch/finally of their worker
Finished == {t \in 1..Len(files) : delivered[t] >= 1 /\ \A p \in Workers : task[p] # t}

\* C5: processed is incremented exactly once per task, whatever its outcome, so
\* the returned report has processed = number of planned tasks.
C5_ProcessedOncePerTask ==
  /\ \A t \in 1..Len(files) : term[t].processed = IF t \in Finished THEN 1 ELSE 0
  /\ processed = Cardinality(Finished)
  /\ SyncReturned => report[1].processed = Len(files)

\* a run of three tasks returned, one skipped, one uploaded, one failed
C5_Witness ==
  /\ SyncReturned /\ Len(files) = 3 /\ report[1].processed = 3
  /\ report[1].skipped = 1 /\ report[1].uploaded = 1 /\ report[1].failed = 1

\* C6: each task increments exactly one of skipped, uploaded, failed: at every
\* moment uploaded + skipped + failed is the number of finished tasks, and in
\* the report uploaded + skipped + failed = processed.
C6_OneTerminalStatePerTask ==
  /\ \A t \in 1..Len(files) :
       term[t].skipped + term[t].uploaded + term[t].failed
         = IF t \in Finished THEN 1 ELSE 0
  /\ uploaded = Cardinality({t \in 1..Len(files) : term[t].uploaded = 1})
  /\ skipped = Cardinality({t \in 1..Len(files) : term[t].skipped = 1})
  /\ failed = Cardinality({t \in 1..Len(files) : term[t].failed = 1})
  /\ uploaded + skipped + failed = Cardinality(Finished)
  /\ SyncReturned =>
       report[1].uploaded + report[1].skipped + report[1].failed = report[1].processed

\* two tasks are finished in different terminal states while a third is handled
C6_Witness ==
  /\ Cardinality(Finished) = 2 /\ Len(files) = 3 /\ nWorkers = 2
  /\ skipped = 1 /\ uploaded = 1 /\ \E p \in Workers : pc[p] = "put_wait"

\* C7: a failure raised while handling a task increments failed for that task
\* only; the worker goes on to dequeue the next task, the other workers are
\* unaffected, and smartSync returns a report instead of raising.
C7_FailureStaysInItsTask ==
  /\ [](/\ \A p \in Workers : pc[p] # "rejected"
        /\ report # Null => ~report[1].raised)
  /\ [][\A p \in Workers :
          (pc[p] = "settled" /\ ~result[p].ok /\ pc'[p] # "settled")
          => /\ failed' = failed + 1 /\ uploaded' = uploaded /\ skipped' = skipped
             /\ term'[task[p]].failed = 1
             /\ \A t \in 1..Len(files) : t # task[p] => term'[t] = term[t]
             /\ IF queue = <<>> THEN pc'[p] = "returned"
                ELSE task'[p] = Head(queue) /\ queue' = Tail(queue)
                     /\ pc'[p] \in {"mkdir_wait", "mkdir_ret", "head_wait"}
             /\ \A q \in Workers \ {p} :
                  /\ pc'[q] = pc[q] /\ task'[q] = task[q]
                  /\ result'[q] = result[q] /\ attempt'[q] = attempt[q]]_vars

\* the first task failed, its worker took a later task, and the run returned a
\* report that counts an upload as well
C7_Witness ==
  /\ SyncReturned /\ nWorkers = 2 /\ Len(files) = 3
  /\ term[1].failed = 1 /\ report[1].failed = 1 /\ report[1].uploaded >= 1

RetryOps == {"head", "upload", "link", "download"}
AttemptPcs == {"head_wait", "open_wait", "put_wait", "get_wait", "dlopen_wait",
               "pipe_wait", "src_wait", "linkput_wait"}
NonRetryableStatus(status) == ~IsOk(status) /\ ~isRetryableStatus(status)

\* C8: when an attempt of upload, uploadFromLink or download ends with a
\* non-retryable status, the failure propagates at once: the call has raised
\* that error, with no backoff wait and no further attempt.
C8_NonRetryablePropagatesAtOnce ==
  \A p \in Workers :
    (op[p] \in {"upload", "link", "download"} /\ attemptErr[p].kind = "status"
       /\ NonRetryableStatus(attemptErr[p].code))
    => /\ pc[p] = "settled" /\ ~result[p].ok /\ result[p].error = attemptErr[p]
       /\ attempt[p] = 0 => (tries[p] = 1 /\ waits[p] = <<>>)

\* C9: a call under the retry policy whose every attempt ends with a retryable
\* status makes exactly maxRetries + 1 attempts and then raises.
C9_ExactlyMaxRetriesPlusOneAttempts ==
  \A p \in Workers :
    /\ tries[p] <= maxRetries + 1
    /\ (op[p] \in RetryOps /\ tries[p] >= 1 /\ allRetryable[p] /\ pc[p] = "settled")
       => (~result[p].ok /\ tries[p] = maxRetries + 1)
    /\ (op[p] \in RetryOps /\ tries[p] >= 1 /\ allRetryable[p] /\ pc[p] # "settled")
       => (pc[p] \in AttemptPcs \cup {"backoff"} /\ tries[p] = attempt[p] + 1)

\* uploadFromLink raised after three attempts that all ended with a retryable status
C9_Witness ==
  /\ maxRetries = 2 /\ op[1] = "link" /\ pc[1] = "settled" /\ ~result[1].ok
  /\ allRetryable[1] /\ tries[1] = 3

\* C10: after failed attempt i < maxRetries the next attempt starts only after a
\* wait of retryDelay * (i + 1); no wait follows the final attempt; the error
\* that propagates is the error of the last attempt.
C10_BackoffAndLastError ==
  \A p \in Workers :
    op[p] \in RetryOps =>
      /\ \A i \in 1..Len(waits[p]) : waits[p][i] = RetryDelayMs * i
      /\ pc[p] \in AttemptPcs => (Len(waits[p]) = attempt[p] /\ tries[p] = attempt[p] + 1)
      /\ pc[p] = "backoff" =>
           (Len(waits[p]) = attempt[p] + 1 /\ tries[p] = attempt[p] + 1
            /\ attempt[p] < maxRetries)
      /\ (pc[p] = "settled" /\ tries[p] >= 1) => Len(waits[p]) = tries[p] - 1
      /\ (pc[p] = "settled" /\ tries[p] >= 1 /\ ~result[p].ok)
           => result[p].error = attemptErr[p]

\* download raised the 503 of its third attempt after waits of 600 and 1200 ms
C10_Witness ==
  /\ maxRetries = 2 /\ op[1] = "download" /\ pc[1] = "settled" /\ ~result[1].ok
  /\ waits[1] = <<RetryDelayMs, 2 * RetryDelayMs>>
  /\ result[1].error = StatusError(503)

\* the worker resumes from the probe, which returned m
ProbeReturned(p) == pc[p] = "settled" /\ op[p] = "head" /\ result[p].ok
\* the metadata is present, its size is present and equals the task's size
SizeMatches(m, t) == m # Null /\ m[1].size # Null /\ m[1].size[1] = files[t].size
\* the step increments skipped for p's task and invokes no upload for it
SkipsTask(p) ==
  /\ skipped' = skipped + 1 /\ term'[task[p]].skipped = 1
  /\ term'[task[p]].processed = 1 /\ uploaded' = uploaded /\ failed' = failed
  /\ ~(pc'[p] = "stat_wait" /\ task'[p] = task[p])
\* the step invokes upload for p's task and increments no counter
InvokesUpload(p) ==
  /\ pc'[p] = "stat_wait" /\ op'[p] = "upload" /\ task'[p] = task[p]
  /\ skipped' = skipped /\ term'[task[p]] = term[task[p]]

\* C11: under policy size a task is skipped iff its probe returned metadata
\* whose size is present and equals the local size; otherwise (no metadata,
\* size absent, size different) upload is invoked, whatever the entity tag.
C11_SizePolicy ==
  /\ [](compareMode = "size" => \A p \in Workers : pc[p] # "md5_wait")
  /\ [][compareMode = "size" =>
          /\ \A p \in Workers :
               (ProbeReturned(p) /\ pc'[p] # "settled")
               => IF SizeMatches(result[p].value, task[p])
                  THEN SkipsTask(p) ELSE InvokesUpload(p)
          /\ skipped' # skipped
             => \E p \in Workers :
                  ProbeReturned(p) /\ SizeMatches(result[p].value, task[p])]_vars

\* the first task was skipped; the probe of the second returned metadata
\* without a size and with an entity tag
C11_Witness ==
  /\ compareMode = "size" /\ Len(files) = 2 /\ term[1].skipped = 1
  /\ ProbeReturned(1) /\ task[1] = 2
  /\ result[1].value # Null /\ result[1].value[1].size = Null
  /\ result[1].value[1].etag # Null

LowerCased(str) ==
  [i \in 1..Len(str) |->
     IF str[i] = "A" THEN "a" ELSE IF str[i] = "B" THEN "b"
     ELSE IF str[i] = "C" THEN "c" ELSE str[i]]
\* the hex digest of the file equals the entity tag, case-insensitively
DigestMatches(m, t) == LowerCased(files[t].md5) = LowerCased(m[1].etag[1])

\* C12: under policy size+etag a task is skipped iff metadata is present, its
\* size equals the task's, an entity tag is present and the hex digest of the
\* local file equals it case-insensitively; without an entity tag the task is
\* never skipped, even when the sizes are equal.
C12_SizeEtagPolicy ==
  [][compareMode = "size+etag" =>
       /\ \A p \in Workers :
            (ProbeReturned(p) /\ pc'[p] # "settled")
            => LET m == result[p].value
               IN IF m # Null /\ m[1].etag # Null
                  THEN pc'[p] = "md5_wait" /\ meta'[p] = m /\ task'[p] = task[p]
                       /\ skipped' = skipped /\ term'[task[p]] = term[task[p]]
                  ELSE InvokesUpload(p)
       /\ \A p \in Workers :
            (pc[p] = "md5_wait" /\ pc'[p] \notin {"md5_wait", "settled"})
            => IF SizeMatches(meta[p], task[p]) /\ DigestMatches(meta[p], task[p])
               THEN SkipsTask(p) ELSE InvokesUpload(p)
       /\ skipped' # skipped
          => \E p \in Workers :
               /\ pc[p] = "md5_wait" /\ meta[p][1].etag # Null
               /\ SizeMatches(meta[p], task[p]) /\ DigestMatches(meta[p], task[p])]_vars

\* the first task was skipped on an entity tag that differs from the digest
\* in case only; the probe of the second returned its size and no entity tag
C12_Witness ==
  /\ compareMode = "size+etag" /\ Len(files) = 2 /\ term[1].skipped = 1
  /\ files[1].md5 = <<"a", "b">>
  /\ ProbeReturned(1) /\ task[1] = 2
  /\ SizeMatches(result[1].value, 2) /\ result[1].value[1].etag = Null

\* C13: when the probe of a task yields no metadata, under either policy, the
\* decision is upload: upload is invoked for the task and skipped is not
\* incremented for it.
C13_AbsentIsUploaded ==
  /\ [][\A p \in Workers :
          (ProbeReturned(p) /\ result[p].value = Null /\ pc'[p] # "settled")
          => InvokesUpload(p)]_vars
  /\ [](\A p \in Workers :
          (op[p] = "upload" /\ task[p] # 0) => term[task[p]].skipped = 0)

\* a probe answered 404 returned no metadata and the task was uploaded
C13_Witness ==
  /\ Len(files) = 2 /\ term[1].uploaded = 1 /\ term[1].skipped = 0
  /\ ProbeReturned(1) /\ task[1] = 2 /\ result[1].value = Null

\* C14: with policy size+etag and an unchanged local tree, when the first
\* smartSync run uploaded every file, the second run against the same remote
\* reports uploaded = 0 and skipped = number of tasks. (Stated here for the
\* second runs in which no task failed, which is the least the claim says.)
C14_SecondRunSkipsAll ==
  (run = 2 /\ SyncReturned /\ compareMode = "size+etag"
     /\ firstReport[1].uploaded = Len(files) /\ report[1].failed = 0)
    => (report[1].uploaded = 0 /\ report[1].skipped = Len(files))

ClaimedRetryable(status) == status \in {408, 425, 429} \/ status >= 500
Success(status) == status \in 200..299

\* C15: getRemoteMetadata returns absent for a HEAD answered 404, without
\* raising or retrying; raises a failure that is retried under the retry policy
\* for a non-success status in {408, 425, 429} or >= 500; returns absent without
\* raising or retrying for any other non-success status; returns metadata for
\* a success status.
C15_HeadClassification ==
  \A p \in Workers :
    (op[p] = "head" /\ headStatus[p] # 0) =>
      LET status == headStatus[p]
          absent == pc[p] = "settled" /\ result[p].ok /\ result[p].value = Null
                    /\ Len(waits[p]) = tries[p] - 1
      IN IF pc[p] = "head_wait"
         \* a further attempt is made only after a retryable status
         THEN ~Success(status) /\ ClaimedRetryable(status) /\ tries[p] >= 2
         ELSE IF status = 404 THEN absent
         ELSE IF ~Success(status) /\ ClaimedRetryable(status)
              THEN \/ pc[p] = "backoff" /\ attempt[p] < maxRetries
                      /\ attemptErr[p] = StatusError(status)
                   \/ pc[p] = "settled" /\ ~result[p].ok /\ attempt[p] = maxRetries
                      /\ result[p].error = StatusError(status)
         ELSE IF ~Success(status) THEN absent
         ELSE pc[p] = "settled" /\ result[p].ok /\ result[p].value # Null

\* with maxRetries = 2, a probe answered 503 and then 403 returned absent after
\* two requests
C15_Witness ==
  /\ maxRetries = 2 /\ op[1] = "head" /\ headStatus[1] = 403 /\ pc[1] = "settled"
  /\ result[1].ok /\ result[1].value = Null /\ tries[1] = 2
  /\ attemptErr[1] = StatusError(503)

FourStatuses == {201, 301, 405, 409}

\* C16: mkdir adds the normalized path to the memoized set exactly when its
\* MKCOL request ends with 201, 301, 405 or 409; after any other status or a
\* transport error it is not added; the set never shrinks, so every path in it
\* has received one of the four statuses from a MKCOL request of this client.
C16_MemoizedOnFourStatuses ==
  /\ [](\A d \in DirUniverse :
          mkcolThen[d] > 0 => (d \in createdDirs <=> mkcolStatus[d] \in FourStatuses))
  /\ [][/\ createdDirs \subseteq createdDirs'
        /\ \A d \in createdDirs' \ createdDirs :
             /\ mkcolSent'[d] = mkcolSent[d] - 1 /\ mkcolThen'[d] = mkcolThen[d] + 1
             /\ mkcolStatus'[d] \in FourStatuses]_vars

\* one path was memoized by its only request; the request of another has just
\* been answered 200 and the path is not memoized
C16_Witness ==
  \E d, e \in DirUniverse :
    /\ d \in createdDirs /\ mkcolIssued[d] = 1 /\ mkcolUnmemoized[d] = 0
    /\ e \notin createdDirs /\ mkcolThen[e] = 1 /\ mkcolStatus[e] = 200
    /\ calls = 2

\* C17: mkdir is never retried and never raises: whatever the MKCOL request
\* ends with, the caller that issued it and every caller awaiting it return
\* normally, no further request is sent for it, and the task goes on with the
\* metadata probe without being counted as failed.
C17_MkdirNeverFails ==
  [][/\ \A p \in Workers :
          /\ (pc[p] = "mkdir_wait" /\ pc'[p] # "mkdir_wait")
             => (pc'[p] = "mkdir_ret" /\ task'[p] = task[p] /\ failed' = failed)
          /\ (pc[p] = "mkdir_ret" /\ pc'[p] # "mkdir_ret")
             => (pc'[p] = "head_wait" /\ op'[p] = "head" /\ task'[p] = task[p]
                 /\ failed' = failed /\ term' = term)
     /\ \A d \in DirUniverse :
          \* the request completes: every caller awaiting it returns
          /\ mkcolThen'[d] < mkcolThen[d]
             => \A p \in Workers :
                  (pc[p] = "mkdir_wait" /\ awaitDir[p] = d) => pc'[p] = "mkdir_ret"
          \* a request is sent only by a caller entering mkdir
          /\ mkcolIssued'[d] # mkcolIssued[d]
             => /\ mkcolIssued'[d] = mkcolIssued[d] + 1
                /\ \E p \in Workers :
                     pc[p] # "mkdir_wait" /\ pc'[p] = "mkdir_wait" /\ awaitDir'[p] = d]_vars

\* the one MKCOL request of a directory ended without memoizing it, and the two
\* workers that awaited it are both probing their tasks; no task has failed
C17_Witness ==
  \E d \in DirUniverse : \E p, q \in Workers :
    /\ p # q /\ mkcolIssued[d] = 1 /\ mkcolUnmemoized[d] = 1 /\ d \notin createdDirs
    /\ pc[p] = "head_wait" /\ pc[q] = "head_wait" /\ failed = 0
    /\ DirOfTask(task[p]) = d /\ DirOfTask(task[q]) = d

\* a retryable status code, or a fetch that rejected (request timeout)
Transient(err) ==
  \/ err.kind = "status" /\ ClaimedRetryable(err.code)
  \/ err.kind = "fetch"

\* C18: a transient remote failure (retryable status or request timeout) in
\* the probe or the upload of a task is retried under the retry policy; when
\* all maxRetries + 1 attempts fail the task becomes Failed: failed is
\* incremented once, uploaded and skipped are not.
C18_TransientRetriedThenFailed ==
  [][\A p \in Workers :
       \* an attempt fails
       /\ (pc[p] \in {"head_wait", "put_wait"} /\ pc'[p] \in {"backoff", "settled"}
             /\ (pc'[p] = "settled" => ~result'[p].ok) /\ Transient(attemptErr'[p]))
          => IF attempt[p] < maxRetries
             THEN pc'[p] = "backoff" /\ failed' = failed
             ELSE pc'[p] = "settled" /\ tries[p] = maxRetries + 1
       \* the retry
       /\ (pc[p] = "backoff" /\ pc'[p] # "backoff")
          => (pc'[p] = (IF op[p] = "head" THEN "head_wait" ELSE "open_wait")
              /\ tries'[p] = tries[p] + 1 /\ task'[p] = task[p] /\ failed' = failed)
       \* the caller takes the failure of the last attempt
       /\ (pc[p] = "settled" /\ ~result[p].ok /\ op[p] \in {"head", "upload"}
             /\ tries[p] = maxRetries + 1 /\ Transient(attemptErr[p])
             /\ pc'[p] # "settled")
          => /\ failed' = failed + 1 /\ uploaded' = uploaded /\ skipped' = skipped
             /\ term'[task[p]] = [ZeroTerm EXCEPT !.failed = 1, !.processed = 1]]_vars

\* with maxRetries = 1 the first task has failed and the upload of the second
\* has raised after two attempts, the last one timed out
C18_Witness ==
  /\ maxRetries = 1 /\ Len(files) = 2 /\ term[1].failed = 1
  /\ pc[1] = "settled" /\ op[1] = "upload" /\ task[1] = 2 /\ ~result[1].ok
  /\ tries[1] = 2 /\ result[1].error = FetchError

\* C19: every network call of a worker is bounded by its own timeout, so a
\* smartSync run eventually returns even when the remote never answers a
\* request.
C19_RunReturnsDespiteHang == <>(report # Null)

\* the scenario of C20: with maxRetries = 2 the probe of p's task was answered
\* 503, then 200 with the size of the local file
Probe503Then200(p) ==
  /\ ProbeReturned(p) /\ maxRetries = 2 /\ tries[p] = 2
  /\ attemptErr[p] = StatusError(503) /\ headStatus[p] = 200
  /\ SizeMatches(result[p].value, task[p])

ReportIs(r, pr, up, sk, fa) ==
  r[1].processed = pr /\ r[1].uploaded = up /\ r[1].skipped = sk /\ r[1].failed = fa

\* C21: under policy size, for N files, any concurrency and interleaving: when
\* every remote path is absent and every upload succeeds the report is
\* processed = N, uploaded = N, skipped = 0, failed = 0; in a rerun against the
\* remote, which now reports a matching size for every path, every probe that
\* is answered leads to a skip and nothing is uploaded: processed = N,
\* uploaded = 0, skipped = N, failed = 0 when every probe is answered (failed
\* counts the tasks whose probe got no answer).
C21_UploadAllThenSkipAll ==
  /\ [](compareMode = "size" =>
         /\ (run = 1 /\ SyncReturned /\ \A t \in 1..Len(files) : stored[t] # Null)
            => ReportIs(report, Len(files), Len(files), 0, 0)
         /\ (run = 2 /\ SyncReturned /\ firstReport[1].uploaded = Len(files))
            => /\ report[1].processed = Len(files) /\ report[1].uploaded = 0
               /\ report[1].skipped = Len(files) - report[1].failed
               /\ \A t \in 1..Len(files) : stored[t] # Null)
  /\ [][(compareMode = "size" /\ run = 2 /\ firstReport[1].uploaded = Len(files))
         => \A p \in Workers :
              (ProbeReturned(p) /\ pc'[p] # "settled") => SkipsTask(p)]_vars

\* two files, two workers: the first run uploaded both, the rerun skipped both
C21_Witness ==
  /\ compareMode = "size" /\ Len(files) = 2 /\ concurrency = 2
  /\ run = 2 /\ SyncReturned
  /\ ReportIs(firstReport, 2, 2, 0, 0) /\ ReportIs(report, 2, 0, 2, 0)

\* C22: an upload attempt succeeds exactly when the PUT response status is 2xx
\* (201 and 204 included); every other status makes the attempt fail, and the
\* failure is classified retryable when the status is 408, 425, 429 or >= 500
\* and non-retryable otherwise.
C22_PutClassification ==
  [][\A p \in Workers :
       (op[p] = "upload" /\ pc[p] = "put_wait" /\ pc'[p] # "put_wait"
          /\ answer'[p].status # 0)
       => LET status == answer'[p].status
          IN IF Success(status)
             THEN pc'[p] = "settled" /\ result'[p].ok /\ answer'[p].thrown = ""
             ELSE /\ attemptErr'[p] = StatusError(status)
                  /\ \/ pc'[p] = "backoff"
                     \/ pc'[p] = "settled" /\ ~result'[p].ok
                        /\ result'[p].error = StatusError(status)
                  /\ answer'[p].thrown = IF ClaimedRetryable(status)
                                         THEN "Upload retryable" ELSE "Upload failed"]_vars

\* an upload returned on a 204 at its second attempt, the first was answered 429
C22_Witness ==
  /\ op[1] = "upload" /\ pc[1] = "settled" /\ result[1].ok
  /\ answer[1].status = 204 /\ tries[1] = 2 /\ attemptErr[1] = StatusError(429)

Streamable(a) == Success(a.status) /\ a.body

Loaded == cfgPc \in {"load_settled", "exit", "panel", "crashed"}

\* C24: loadRcloneConfig returns null when the configuration file cannot be
\* read, the document fails to parse, or the section named remoteName is
\* missing; otherwise it returns a RemoteConfig whose url, user and type are
\* the section's values and whose pass is the result of rcloneReveal on the
\* section's pass.
C24_NullIffConfigUnavailable ==
  Loaded =>
    IF ~cfg.readable \/ ~cfg.parses \/ cfg.entry # "section"
    THEN cfgOut = Null
    ELSE /\ cfgOut # Null
         /\ cfgOut[1].url = cfg.url /\ cfgOut[1].user = cfg.user
         /\ cfgOut[1].type = cfg.type
         /\ cfg.revealed # Null /\ cfgOut[1].pass = cfg.revealed[1]

\* a step of rcloneReveal failed, or the decoded pass is shorter than the
\* counter block
RevealFell(c) ==
  \/ ~c.pass.b64
  \/ c.pass.len < IvLength
  \/ c.key # "ok"
  \/ c.caught = "decrypt"

\* C25: rcloneReveal never raises and is fail-open: when the decoded pass has
\* fewer than 16 bytes or a step fails (base64, key, cipher) it returns the
\* obscured string unchanged, and loadRcloneConfig returns a RemoteConfig
\* with that string as pass, not null.
C25_RevealFailOpen ==
  /\ cfgPc \in {"idle", "read_wait", "import_wait", "decrypt_wait",
                "reveal_settled", "load_settled", "exit", "panel", "crashed"}
  /\ (cfg.entry = "section" /\ cfg.pass.kind = "string" /\ cfg.revealed # Null
        /\ RevealFell(cfg))
     => /\ cfg.revealed[1] = cfg.pass
        /\ Loaded => (cfgOut # Null /\ cfgOut[1].pass = cfg.pass)
  /\ (cfg.caught # "") => (cfg.revealed # Null /\ cfg.pass.kind = "string")

\* the cipher failed on a 17-byte pass and the client was built with the
\* obscured string as its secret
C25_Witness ==
  /\ cfgPc = "panel" /\ cfg.caught = "decrypt" /\ cfg.pass.len = IvLength + 1
  /\ cfgOut # Null /\ cfgOut[1].pass = cfg.pass

\* the tasks dequeued and not yet in a terminal state
Dequeued == {t \in 1..Len(files) : delivered[t] >= 1 /\ term[t].processed = 0}

\* max(1, concurrency)
PoolSize == IF concurrency >= 1 THEN concurrency ELSE 1

\* C26: smartSync launches exactly max(1, concurrency) workers (one for zero
\* and negative values); the tasks dequeued but not yet in a terminal state are
\* never more than that, and a worker dequeues its next task only after its
\* current task has reached a terminal state.
C26_PoolOfMaxOneConcurrency ==
  /\ [](/\ DOMAIN pc = 1..PoolSize
        /\ Cardinality(Dequeued) <= PoolSize
        /\ \A t \in Dequeued : Cardinality({p \in DOMAIN pc : task[p] = t}) = 1
        /\ (report # Null) => \A p \in DOMAIN pc : pc[p] = "returned")
  /\ [][\A p \in DOMAIN pc :
          (pc[p] # "init" /\ Len(queue') < Len(queue) /\ task'[p] # task[p])
          => /\ task[p] # 0
             /\ term'[task[p]].processed = 1
             /\ term'[task[p]].skipped + term'[task[p]].uploaded
                  + term'[task[p]].failed = 1
             /\ task'[p] \in Dequeued']_vars

\* two workers asked for, three tasks: two are in flight and the third waits
C26_Witness ==
  /\ concurrency = 2 /\ Len(files) = 3 /\ Cardinality(Dequeued) = 2
  /\ Len(queue) = 1 /\ \A p \in DOMAIN pc : task[p] # 0

\* a negative number of workers asked for: one worker took the second task
\* after the first reached its terminal state
C26_WitnessNegative ==
  /\ concurrency = -1 /\ DOMAIN pc = {1} /\ task[1] = 2 /\ term[1].processed = 1
  /\ Dequeued = {2}

\* C27: the memoized set never shrinks: a path in it stays in it whatever
\* operation runs, no MKCOL request is issued for it any more, and a mkdir
\* call for it returns at once.
C27_MemoNeverShrinks ==
  [][/\ createdDirs \subseteq createdDirs'
     /\ \A d \in createdDirs : mkcolIssued'[d] = mkcolIssued[d]
     /\ \A p \in Workers :
          (task'[p] # task[p] /\ task'[p] # 0 /\ DirOfTask(task'[p]) \in createdDirs)
          => pc'[p] = "mkdir_ret"]_vars

\* one worker: the first task's MKCOL memoized the directory, the second
\* task's mkdir for the same directory returned with no further request
C27_Witness ==
  /\ concurrency = 1 /\ task[1] = 2 /\ pc[1] = "mkdir_ret"
  /\ DirOfTask(2) = DirOfTask(1) /\ DirOfTask(2) \in createdDirs
  /\ mkcolIssued[DirOfTask(2)] = 1 /\ term[1].processed = 1

\* C28: a path is in pendingDirs exactly while its MKCOL request is
\* outstanding: put there when the request is issued, removed when it
\* completes, with a memoized status, another status or a transport error;
\* pendingDirs is empty when no request is outstanding and when smartSync
\* returns.
C28_PendingWhileOutstanding ==
  /\ [](/\ \A d \in DirUniverse : InFlight(d) \in {0, 1}
        /\ pendingDirs = {d \in DirUniverse : InFlight(d) = 1}
        /\ SyncReturned => pendingDirs = {})
  /\ [][\A d \in DirUniverse :
          /\ mkcolIssued'[d] > mkcolIssued[d]
               => (d \notin pendingDirs /\ d \in pendingDirs')
          /\ (mkcolThen'[d] < mkcolThen[d])
               => (d \in pendingDirs /\ d \notin pendingDirs')
          /\ (d \in pendingDirs) # (d \in pendingDirs')
               => (mkcolIssued'[d] > mkcolIssued[d] \/ mkcolThen'[d] < mkcolThen[d])]_vars

\* a request that ended without memoizing its directory has left pendingDirs
\* while the request for another directory is still outstanding
C28_Witness ==
  \E d, e \in DirUniverse :
    /\ d \notin pendingDirs /\ d \notin createdDirs /\ mkcolIssued[d] = 1
    /\ mkcolUnmemoized[d] = 1 /\ InFlight(d) = 0
    /\ e \in pendingDirs /\ mkcolSent[e] = 1

\* the MKCOL requests for d that have completed
Completed(d) == mkcolIssued[d] - InFlight(d)
\* the parent directory of p's task is empty, memoized, or a MKCOL request for
\* it has completed
DirEnsured(p) ==
  LET d == DirOfTask(task[p])
  IN d = <<>> \/ d \in createdDirs \/ Completed(d) >= 1
\* p is in the metadata probe of its task / in the upload of its task
InProbe(p) == op[p] = "head" /\ pc[p] \in {"head_wait", "backoff"}
InUpload(p) == op[p] = "upload" /\ pc[p] \in {"stat_wait", "open_wait", "put_wait", "backoff"}

\* C29: each task goes directory-ensure, then probe, then decision: for a
\* task with a non-empty parent directory no HEAD and no PUT is issued before
\* a MKCOL request for that directory has completed or the directory is
\* memoized (the probe starts when mkdir has returned), and the upload of a
\* task starts only when its probe has returned.
C29_EnsureThenProbeThenDecide ==
  /\ [](\A p \in Workers :
          /\ pc[p] \in {"head_wait", "stat_wait", "open_wait", "put_wait"}
               => (DirEnsured(p) /\ (InProbe(p) \/ InUpload(p)))
          /\ pc[p] \in {"mkdir_wait", "mkdir_ret"} => DirOfTask(task[p]) # <<>>)
  /\ [][\A p \in Workers :
          /\ (InProbe(p)' /\ ~InProbe(p))
               => IF DirOfTask(task'[p]) # <<>>
                  THEN pc[p] = "mkdir_ret" /\ task'[p] = task[p] /\ DirEnsured(p)
                  ELSE task'[p] # task[p] \/ pc[p] = "init"
          /\ (pc'[p] = "md5_wait" /\ pc[p] # "md5_wait")
               => (ProbeReturned(p) /\ task'[p] = task[p])
          /\ (InUpload(p)' /\ ~InUpload(p))
               => /\ ProbeReturned(p) \/ pc[p] = "md5_wait"
                  /\ task'[p] = task[p]
          /\ (InProbe(p) \/ InUpload(p)) /\ (InProbe(p)' \/ InUpload(p)' \/ pc'[p] = "settled")
               => task'[p] = task[p]]_vars

\* two workers, two tasks in one directory, one MKCOL request: one worker has
\* its PUT outstanding, the other its HEAD
C29_Witness ==
  /\ concurrency = 2 /\ task[1] # 0 /\ task[2] # 0
  /\ DirOfTask(task[1]) = DirOfTask(task[2]) /\ DirOfTask(task[1]) # <<>>
  /\ mkcolIssued[DirOfTask(task[1])] = 1 /\ InFlight(DirOfTask(task[1])) = 0
  /\ {pc[1], pc[2]} = {"put_wait", "head_wait"}

\* the probe returned metadata with an entity tag
HasEntityTag(m) == m # Null /\ m[1].etag # Null

\* C30: the local file's checksum is computed only when the policy is
\* size+etag and the probe returned an entity tag: under policy size, and
\* under size+etag when the metadata or the entity tag is absent, the decision
\* step does not read the local file for hashing.
C30_ChecksumOnlyWithEntityTag ==
  /\ [](\A p \in Workers :
          pc[p] = "md5_wait" => (compareMode = "size+etag" /\ HasEntityTag(meta[p])))
  /\ [][\A p \in Workers :
          /\ (pc'[p] = "md5_wait" /\ pc[p] # "md5_wait")
               => /\ ProbeReturned(p) /\ compareMode = "size+etag"
                  /\ HasEntityTag(result[p].value) /\ meta'[p] = result[p].value
          /\ (ProbeReturned(p) /\ pc'[p] # "settled"
                /\ (compareMode = "size" \/ ~HasEntityTag(result[p].value)))
               => (pc'[p] # "md5_wait" /\ (SkipsTask(p) \/ InvokesUpload(p)))]_vars

\* under size+etag the checksum is being computed for a task whose probe
\* returned an entity tag and a size other than the local one
C30_Witness ==
  /\ compareMode = "size+etag" /\ pc[1] = "md5_wait" /\ HasEntityTag(meta[1])
  /\ ~SizeMatches(meta[1], task[1]) /\ meta[1][1].size # Null

\* the planned tasks that have been dequeued
Taken == {t \in 1..Len(files) : delivered[t] >= 1}

\* C31: tasks are dequeued in the order of the planned list: the dequeued
\* tasks are always the first ones of the plan, the queue holds the others in
\* plan order, and each dequeue takes the first task not yet dequeued, for any
\* number of workers and any interleaving. (The order of the terminal states
\* is free: see the witness.)
C31_DequeuedInPlanOrder ==
  /\ [](/\ Taken = 1..(Len(files) - Len(queue))
        /\ queue = [k \in 1..Len(queue) |-> Len(files) - Len(queue) + k])
  /\ [][\A t \in 1..Len(files) :
          (delivered'[t] > delivered[t])
          => /\ t = Len(files) - Len(queue) + 1
             /\ \A i \in 1..(t - 1) : delivered[i] >= 1
             /\ \A j \in (t + 1)..Len(files) : delivered'[j] = 0]_vars

\* three tasks, two workers: the second task reached its terminal state and
\* the third was dequeued while the first is still in flight
C31_Witness ==
  /\ Len(files) = 3 /\ concurrency = 2 /\ Taken = {1, 2, 3}
  /\ term[2].processed = 1 /\ term[1].processed = 0 /\ term[3].processed = 0

\* the regular files of the tree, in the order walk() yields them
RegularFiles == SelectSeq(planning.entries, LAMBDA e : e.kind = "file")
\* the names of an entry with every backslash turned into a forward slash
ForwardNames(rel) ==
  [k \in 1..Len(rel) |-> [i \in 1..Len(rel[k]) |->
                             IF rel[k][i] = "\\" THEN "/" ELSE rel[k][i]]]
\* the remote root and the names of the entry, joined with forward slashes
ExpectedRemote(e) ==
  CollapseSlashes(JoinWith(
    SelectSeq(<<planning.remoteFolder>> \o ForwardNames(e.rel), LAMBDA x : x # <<>>),
    "/"))

\* C32: planning yields exactly one task per regular file under the local
\* root and none for a directory or another non-file; the remote path of a
\* task is the remote root joined with the file's path relative to the local
\* root, with forward slashes only, and its size is the file's size.
C32_OneTaskPerRegularFile ==
  /\ Len(planning.tasks) <= Len(RegularFiles)
  /\ \A k \in 1..Len(planning.tasks) :
       /\ planning.tasks[k].remote = ExpectedRemote(RegularFiles[k])
       /\ \A i \in 1..Len(planning.tasks[k].remote) :
            planning.tasks[k].remote[i] # "\\"
       /\ planning.tasks[k].size = RegularFiles[k].size
       /\ planning.tasks[k].local =
            EntryPath(planning.localFolder, RegularFiles[k].rel, planning.sep)
  /\ planning.pc = "planned" => Len(planning.tasks) = Len(RegularFiles)

\* on Windows, a tree with a directory, a file in it and a symbolic link was
\* planned under the remote root "r/": one task, for r/d/g
C32_Witness ==
  /\ planning.pc = "planned" /\ planning.sep = "\\"
  /\ planning.remoteFolder = <<"r", "/">>
  /\ planning.entries = <<RootEntry, DirD, LinkS, FileUnderD>>
  /\ Len(planning.tasks) = 1
  /\ planning.tasks[1].remote = <<"r", "/", "d", "/", "g">>
  /\ planning.tasks[1].size = 20

\* p's upload call has settled / has returned successfully
UploadSettled(p) == pc[p] = "settled" /\ op[p] = "upload"
UploadReturned(p) == UploadSettled(p) /\ result[p].ok
\* p is at the decision for its task: its probe or its checksum is back
AtDecision(p) == ProbeReturned(p) \/ pc[p] = "md5_wait"

\* C33: a skipped task issues no PUT request and uploaded is incremented only
\* after the task's upload call returned successfully: a task is counted
\* skipped in its decision step, with no upload before or after; a PUT is
\* outstanding only for a task in no terminal state, inside its upload call;
\* an upload call that returned counts the task uploaded, one that raised
\* counts it failed; so in the report uploaded is the number of tasks whose
\* upload call succeeded and skipped the number of tasks decided synchronized.
C33_SkipSendsNothingUploadCountsOnReturn ==
  /\ [](/\ \A p \in Workers :
             (InUpload(p) \/ UploadSettled(p))
             => (task[p] # 0 /\ term[task[p]] = ZeroTerm)
        /\ \A t \in 1..Len(files) : term[t].uploaded <= 1 /\ term[t].skipped <= 1
        /\ SyncReturned =>
             /\ report[1].uploaded = Cardinality({t \in 1..Len(files) : term[t].uploaded = 1})
             /\ report[1].skipped = Cardinality({t \in 1..Len(files) : term[t].skipped = 1}))
  /\ [][\A t \in 1..Len(files) :
          /\ term'[t].skipped > term[t].skipped
               => \E p \in Workers :
                    /\ task[p] = t /\ AtDecision(p) /\ ~InUpload(p)' /\ task'[p] # t
                    /\ term'[t] = [ZeroTerm EXCEPT !.skipped = 1, !.processed = 1]
          /\ term'[t].uploaded > term[t].uploaded
               => \E p \in Workers :
                    /\ task[p] = t /\ UploadReturned(p)
                    /\ term'[t] = [ZeroTerm EXCEPT !.uploaded = 1, !.processed = 1]
          /\ \A p \in Workers :
               (task[p] = t /\ UploadSettled(p) /\ pc'[p] # "settled")
               => term'[t] = IF result[p].ok
                             THEN [ZeroTerm EXCEPT !.uploaded = 1, !.processed = 1]
                             ELSE [ZeroTerm EXCEPT !.failed = 1, !.processed = 1]]_vars

\* one worker: the first task was skipped; the upload call of the second has
\* returned at its second attempt and uploaded is not yet incremented
C33_Witness ==
  /\ concurrency = 1 /\ Len(files) = 2
  /\ term[1] = [ZeroTerm EXCEPT !.skipped = 1, !.processed = 1]
  /\ task[1] = 2 /\ UploadReturned(1) /\ tries[1] = 2
  /\ uploaded = 0 /\ skipped = 1

\* p's probe has raised / has raised after retryable statuses only
ProbeRaised(p) == pc[p] = "settled" /\ op[p] = "head" /\ ~result[p].ok
ProbeExhausted(p) ==
  /\ ProbeRaised(p) /\ allRetryable[p] /\ tries[p] = maxRetries + 1
  /\ result[p].error.kind = "status" /\ ClaimedRetryable(result[p].error.code)

\* C34: when the probe of a task fails on all maxRetries + 1 attempts with a
\* retryable status, the task becomes Failed and no PUT is issued for it: the
\* probe raises only after the last attempt, the worker then counts the task
\* failed and leaves it without calling upload, and a worker is inside upload
\* only for a task that is not failed.
C34_UnknownProbeNeverUploads ==
  /\ [](\A p \in Workers :
          /\ ProbeRaised(p) => tries[p] = maxRetries + 1
          /\ (InUpload(p) \/ UploadSettled(p)) => term[task[p]].failed = 0)
  /\ [][\A p \in Workers :
          (ProbeExhausted(p) /\ pc'[p] # "settled")
          => /\ term'[task[p]] = [ZeroTerm EXCEPT !.failed = 1, !.processed = 1]
             /\ failed' = failed + 1 /\ uploaded' = uploaded /\ skipped' = skipped
             /\ task'[p] # task[p]]_vars

\* with maxRetries = 2 the probe of the only task has raised after three
\* requests, the last one answered 500
C34_Witness ==
  /\ maxRetries = 2 /\ Len(files) = 1 /\ task[1] = 1 /\ ProbeExhausted(1)
  /\ tries[1] = 3 /\ headStatus[1] = 500 /\ Len(waits[1]) = 2

\* a non-success status that is neither retryable nor 404
Refusal(status) == ~Success(status) /\ ~ClaimedRetryable(status) /\ status # 404

\* C35: a probe answered with a non-retryable non-success status other than
\* 404 (401, 403) does not fail the task: the probe returns absent at once,
\* with no wait and no further HEAD request (one request when it is the first
\* answer), and the worker goes on to upload under either policy.
C35_RefusedProbeGoesToUpload ==
  [][\A p \in Workers :
       /\ (pc[p] = "head_wait" /\ pc'[p] # "head_wait" /\ headStatus'[p] # 0
             /\ Refusal(headStatus'[p]))
          => /\ pc'[p] = "settled" /\ result'[p].ok /\ result'[p].value = Null
             /\ tries'[p] = tries[p] /\ waits'[p] = waits[p]
             /\ attempt[p] = 0 => tries'[p] = 1
             /\ failed' = failed
       /\ (ProbeReturned(p) /\ headStatus[p] # 0 /\ Refusal(headStatus[p])
             /\ pc'[p] # "settled")
          => (InvokesUpload(p) /\ failed' = failed)]_vars

\* under size+etag the probe of a task, answered 401 at its first request,
\* has returned absent
C35_Witness ==
  /\ compareMode = "size+etag" /\ task[1] = 1 /\ term[1] = ZeroTerm
  /\ ProbeReturned(1) /\ headStatus[1] = 401 /\ result[1].value = Null
  /\ tries[1] = 1 /\ waits[1] = <<>> /\ failed = 0

\* the MKCOL request for d has ended without memoizing d and its finally
\* callback is about to run
EndsUnmemoized(d) == mkcolThen[d] = 1 /\ mkcolStatus[d] \notin FourStatuses

\* C36: when the MKCOL request that mkdir callers await ends with a transport
\* error or a status outside {201, 301, 405, 409}, every awaiting caller
\* returns normally and sends no request of its own, and the path is then in
\* neither createdDirs nor pendingDirs; the next mkdir call for the path that
\* starts after that issues a new MKCOL request.
C36_FailedMkcolIsForgotten ==
  [][\A d \in DirUniverse :
       /\ (EndsUnmemoized(d) /\ mkcolThen'[d] = 0)
          => /\ d \notin createdDirs' /\ d \notin pendingDirs'
             /\ mkcolIssued'[d] = mkcolIssued[d]
             /\ \A p \in Workers :
                  (pc[p] = "mkdir_wait" /\ awaitDir[p] = d)
                  => (pc'[p] = "mkdir_ret" /\ task'[p] = task[p])
       /\ \A p \in Workers :
            /\ (pc[p] = "mkdir_ret" /\ pc'[p] # "mkdir_ret")
               => (mkcolIssued' = mkcolIssued /\ pc'[p] = "head_wait"
                   /\ failed' = failed)
            /\ (task'[p] # 0 /\ (task'[p] # task[p] \/ pc[p] = "init")
                  /\ DirOfTask(task'[p]) = d /\ mkcolUnmemoized[d] >= 1
                  /\ d \notin createdDirs /\ InFlight(d) = 0)
               => (mkcolIssued'[d] = mkcolIssued[d] + 1 /\ pc'[p] = "mkdir_wait"
                   /\ awaitDir'[p] = d /\ d \in pendingDirs')]_vars

\* in the first run two workers awaited the one request for a directory, which
\* ended without memoizing it; in the second run a new request is outstanding
\* and both workers await it
C36_Witness ==
  \E d \in DirUniverse :
    /\ run = 2 /\ concurrency = 2 /\ mkcolIssued[d] = 2 /\ mkcolUnmemoized[d] = 1
    /\ mkcolSent[d] = 1 /\ d \in pendingDirs /\ d \notin createdDirs
    /\ \A p \in Workers : pc[p] = "mkdir_wait" /\ awaitDir[p] = d
    /\ firstReport[1].processed = 2

\* every MKCOL request so far ended with 201, 301, 405 or 409
AllMemoized == \A d \in DirUniverse : mkcolUnmemoized[d] = 0 /\ ~EndsUnmemoized(d)

\* C37: createdDirs outlives a run: when the same client serves two
\* consecutive runs over the same tree and every MKCOL request of the first
\* run ended with 201, 301, 405 or 409, the second run issues no MKCOL
\* request.
C37_MemoOutlivesRun ==
  /\ [](run = 2 /\ AllMemoized
        => /\ pendingDirs = {} /\ createdDirs = ParentDirs
           /\ \A d \in DirUniverse :
                /\ InFlight(d) = 0
                /\ mkcolIssued[d] = IF d \in ParentDirs THEN 1 ELSE 0)
  /\ [][(run = 2 /\ AllMemoized) => mkcolIssued' = mkcolIssued]_vars

\* the second run over two files of one directory has returned; the one MKCOL
\* request of the client was made in the first run
C37_Witness ==
  /\ run = 2 /\ SyncReturned /\ AllMemoized /\ Len(files) = 2
  /\ ParentDirs = {<<"d">>} /\ mkcolIssued[<<"d">>] = 1
  /\ report[1].processed = 2

\* C38: when every attempt of download ends with a non-success status or a
\* missing body, the local destination file is never opened, created or
\* truncated: an existing local file keeps its content and download raises.
\* Step by step: starting the call, an attempt answered without a success
\* status or without a body, and the wait before the next attempt each leave
\* the local file as it is and never lead to Deno.open; the call ends raised
\* once such an attempt is the last one.
C38_FailedDownloadLeavesLocalFile ==
  /\ [](\A p \in Workers :
          (op[p] = "download" /\ pc[p] \in {"dlopen_wait", "pipe_wait"})
          => Streamable(answer[p]))
  /\ [][\A p \in Workers :
          /\ (calls' # calls /\ pc'[p] = "get_wait")
             => (op'[p] = "download" /\ localFile' = localFile)
          /\ (op[p] = "download" /\ pc[p] = "get_wait" /\ pc'[p] # "get_wait"
                /\ answer'[p].status # 0 /\ ~Streamable(answer'[p]))
             => /\ localFile' = localFile
                /\ pc'[p] \in {"backoff", "settled"}
                /\ pc'[p] = "backoff" <=> tries[p] <= maxRetries
                /\ pc'[p] = "settled"
                   => (~result'[p].ok
                       /\ result'[p].error = StatusError(answer'[p].status))
          /\ (op[p] = "download" /\ pc[p] = "backoff" /\ pc'[p] # "backoff")
             => (localFile' = localFile /\ pc'[p] = "get_wait")
          /\ (op[p] = "download" /\ pc[p] = "settled" /\ ~result[p].ok)
             => (localFile' = localFile /\ pc'[p] \in {"settled", "crashed"})]_vars

\* a first download wrote the local file; the second one was answered 503 and
\* then 200 without a body, and raised with the file still as written
C38_Witness ==
  /\ calls = 2 /\ op[1] = "download" /\ pc[1] = "settled" /\ ~result[1].ok
  /\ maxRetries = 1 /\ tries[1] = 2 /\ localFile = "written"
  /\ answer[1] = [status |-> 200, body |-> FALSE, thrown |-> "Download failed"]
  /\ result[1].error = StatusError(200)

\* task t has been counted processed once, as exactly one of skipped, uploaded
\* and failed
Terminal(t) ==
  /\ term[t].processed = 1
  /\ term[t].skipped + term[t].uploaded + term[t].failed = 1

====
